---- MODULE Spec2Model ----
(***************************************************************************)
(* A model of tikzplotly's layout engine: the per-panel option store       *)
(* (Axis, _axis.py), the title search (find_subgrids, _utils.py, with      *)
(* check_grid, _save.py) and the render driver get_tikz_code (_save.py).   *)
(*                                                                         *)
(* Python values are tagged records [t, v]; a dict is a function from its  *)
(* keys; a list is a sequence; a call that can raise returns a record      *)
(* with a `raised' field.                                                  *)
(***************************************************************************)
EXTENDS Integers, Sequences, FiniteSets, TLC

VARIABLES
    options,      \* heap of option dicts: object id -> dict (Axis.options refers to one)
    axes,         \* the Axis objects in creation order: [options: object id, title]
    warnings,     \* the process-wide warning channel, in emission order
    last,         \* the last store operation: its arguments, the stores before it, what it did
    fig,          \* the figure given to get_tikz_code
    pc,           \* where get_tikz_code is
    annotations,  \* get_tikz_code's local list of annotations still to be drawn
    stack_env,    \* the stack of open environments
    code,         \* the markup emitted so far, one entry per emitted piece
    found,        \* what the title inference of get_tikz_code found and used
    colors_set,   \* the colours of the figure, shared by the panels, traces and annotations
    call          \* a call of find_subgrids or check_grid on its own: arguments and result

vars == <<options, axes, warnings, last, fig, pc, annotations, stack_env, code, found,
          colors_set, call>>
storeVars == <<options, axes, warnings, last>>
renderVars == <<fig, pc, annotations, stack_env, code, found, colors_set>>

(***************************************************************************)
(* Bounds of the model.                                                    *)
(***************************************************************************)
MaxOps == 2            \* store operations performed after construction
StorePanels == 2       \* panels built in the store specification
MaxCoord == 1          \* annotation coordinates range over 0..MaxCoord
MaxAnn == 3            \* annotations of a figure with freely placed annotations
MaxRows == 2           \* rows of the panel grid
MaxCols == 3           \* columns of the panel grid
MaxFree == 2           \* freely placed annotations of a rendered figure
MaxGridRows == 2       \* rows of a grid handed to check_grid on its own
MaxGridCols == 2       \* cells in a row of such a grid
MaxCell == 1           \* points in a cell of such a grid

(***************************************************************************)
(* Python values.                                                          *)
(***************************************************************************)
VNone == [t |-> "none", v |-> 0]
VNum(n) == [t |-> "num", v |-> n]
VStr(s) == [t |-> "str", v |-> s]
VMap(m) == [t |-> "map", v |-> m]
VList(l) == [t |-> "list", v |-> l]

EmptyDict == [k \in {} |-> VNone]

\* {k: v}
Dict1(k, val) == [x \in {k} |-> val]

\* d with d[k] = val
DictSet(d, k, val) == [x \in (DOMAIN d) \cup {k} |-> IF x = k THEN val ELSE d[x]]

\* The option names and values the operations are exercised with.
Keys == {"scale", "xtick style"}
Values ==
    { VNone, VNum(1), VNum(2), VStr("false"),
      VMap(Dict1("draw", VStr("none"))), VMap(Dict1("color", VStr("black"))) }

\* int | int
RECURSIVE BitOr(_, _)
BitOr(a, b) ==
    IF a = 0 THEN b
    ELSE IF b = 0 THEN a
    ELSE 2 * BitOr(a \div 2, b \div 2) + (IF a % 2 = 1 \/ b % 2 = 1 THEN 1 ELSE 0)

\* a | b with a dict union that drops the keys both sides have
PyOr_exclusive(a, b) ==
    IF a.t = "map" /\ b.t = "map"
    THEN [raised |-> FALSE,
          val |-> VMap([k \in ((DOMAIN a.v) \cup (DOMAIN b.v)) \ ((DOMAIN a.v) \cap (DOMAIN b.v)) |->
                            IF k \in DOMAIN b.v THEN b.v[k] ELSE a.v[k]])]
    ELSE IF a.t = "num" /\ b.t = "num"
    THEN [raised |-> FALSE, val |-> VNum(BitOr(a.v, b.v))]
    ELSE [raised |-> TRUE, val |-> VNone]

\* a | b: dict union in which b's entries win; int | int; TypeError otherwise
PyOr(a, b) ==
    IF a.t = "map" /\ b.t = "map"
    THEN [raised |-> FALSE,
          val |-> VMap([k \in (DOMAIN a.v) \cup (DOMAIN b.v) |->
                            IF k \in DOMAIN b.v THEN b.v[k] ELSE a.v[k]])]
    ELSE IF a.t = "num" /\ b.t = "num"
    THEN [raised |-> FALSE, val |-> VNum(BitOr(a.v, b.v))]
    ELSE [raised |-> TRUE, val |-> VNone]

\* update_fn(old, new)
ApplyFn(update_fn, old, new) ==
    CASE update_fn = "a | b" -> PyOr(old, new)
      [] update_fn = "b | a" -> PyOr(new, old)
      [] update_fn = "a if a is not None else b" ->
            [raised |-> FALSE, val |-> IF old # VNone THEN old ELSE new]
      [] update_fn = "max" ->
            IF old.t = "num" /\ new.t = "num"
            THEN [raised |-> FALSE, val |-> IF new.v > old.v THEN new ELSE old]
            ELSE [raised |-> TRUE, val |-> VNone]
      [] update_fn = "min" ->
            IF old.t = "num" /\ new.t = "num"
            THEN [raised |-> FALSE, val |-> IF new.v < old.v THEN new ELSE old]
            ELSE [raised |-> TRUE, val |-> VNone]
      [] update_fn = "x if y in x else x + y" ->
            \* y in x is a test of the elements of a list x and a TypeError on None, a
            \* number, a dict (y is a list) or a string
            IF old.t = "list" /\ new.t = "list"
            THEN [raised |-> FALSE,
                  val |-> IF \E i \in DOMAIN old.v : old.v[i].t = new.t /\ old.v[i] = new
                          THEN old ELSE VList(old.v \o new.v)]
            ELSE [raised |-> TRUE, val |-> VNone]

(***************************************************************************)
(* Axis.__init__: the store of a new panel.  A dict argument is stored     *)
(* as is (no copy); a string is split on "," and each item on "=".         *)
(***************************************************************************)
ArgObj == 0     \* heap id of the caller's axis_options dict

\* axis_options arguments: None, a dict, or a string given as its ","-separated
\* items, each item as its "="-separated parts (already stripped)
AxisOptionsInputs ==
    { [kind |-> "none"],
      [kind |-> "dict", d |-> Dict1("scale", VNum(2))],
      [kind |-> "dict", d |-> EmptyDict],
      [kind |-> "dict", d |-> Dict1("xtick style", VStr("a, b"))],
      [kind |-> "str", items |-> << <<"scale", "2">>, <<"clip">> >>] }

RECURSIVE ParseItems(_, _)
ParseItems(items, d) ==
    IF items = << >> THEN d
    ELSE LET option == Head(items)
         IN  ParseItems(Tail(items),
                        IF Len(option) >= 2
                        THEN DictSet(d, option[1], VStr(option[2]))
                        ELSE DictSet(d, option[1], VNone))

\* the heap object a new panel p uses, and that object's content
AxisInitObj(axis_options, p) == IF axis_options.kind = "dict" THEN ArgObj ELSE p
AxisInitDict(axis_options) ==
    CASE axis_options.kind = "dict" -> axis_options.d
      [] axis_options.kind = "str" -> ParseItems(axis_options.items, EmptyDict)
      [] OTHER -> EmptyDict

NoOp == [n |-> 0, op |-> "none", axis |-> 0, option |-> "", value |-> VNone, update_fn |-> "",
         before |-> << >>, warnings_before |-> << >>, called |-> FALSE, raised |-> FALSE]

\* the heap and the Axis objects after Axis(...) has been called for panels 1..n
BuiltOptions(axis_options, n) ==
    [o \in 0..n |->
        IF o = ArgObj
        THEN (IF axis_options.kind = "dict" THEN axis_options.d ELSE EmptyDict)
        ELSE (IF axis_options.kind = "dict" THEN EmptyDict ELSE AxisInitDict(axis_options))]
BuiltAxes(axis_options, title, n) ==
    [p \in 1..n |-> [options |-> AxisInitObj(axis_options, p), title |-> title]]

AxesBuilt(axis_options, title, n) ==
    /\ options = BuiltOptions(axis_options, n)
    /\ axes = BuiltAxes(axis_options, title, n)

(***************************************************************************)
(* The option store operations (Axis methods).                             *)
(***************************************************************************)
OptionsOf(p) == options[axes[p].options]

\* Axis.add_option, line 101: the condition of the conflict warning
add_option_warns_keyonly(d, option, value) == option \in DOMAIN d
add_option_warns(d, option, value) == option \in DOMAIN d /\ value # d[option]

\* Axis.add_option: warn on a different existing value, then overwrite
add_option_result(d, option, value) ==
    [dict |-> DictSet(d, option, value),
     warned |-> IF add_option_warns(d, option, value) THEN <<"already exists">> ELSE << >>]

\* update_option without the fallback assignment of line 149
update_option_result_nofallback(d, option, value, update_fn) ==
    IF option \in DOMAIN d
    THEN LET r == ApplyFn(update_fn, d[option], value)
         IN  IF r.raised
             THEN [dict |-> d, called |-> TRUE, raised |-> FALSE,
                   warned |-> <<"update_fn failed">>]
             ELSE [dict |-> DictSet(d, option, r.val), called |-> TRUE, raised |-> FALSE,
                   warned |-> << >>]
    ELSE [dict |-> DictSet(d, option, value), called |-> FALSE, raised |-> FALSE,
          warned |-> << >>]

\* Axis.update_option: merge with update_fn; on any exception of update_fn, warn
\* and overwrite.  `raised' is whether an exception leaves update_option.
update_option_result(d, option, value, update_fn) ==
    IF option \in DOMAIN d
    THEN LET r == ApplyFn(update_fn, d[option], value)
         IN  IF r.raised
             THEN [dict |-> DictSet(d, option, value), called |-> TRUE, raised |-> FALSE,
                   warned |-> <<"update_fn failed">>]
             ELSE [dict |-> DictSet(d, option, r.val), called |-> TRUE, raised |-> FALSE,
                   warned |-> << >>]
    ELSE [dict |-> DictSet(d, option, value), called |-> FALSE, raised |-> FALSE,
          warned |-> << >>]

\* the strings of the model that are more than one piece, as their pieces
Chars(s) == IF s = "a, b" THEN <<"a", ",", " ", "b">> ELSE <<s>>

\* "," in s, for a string s
has_comma(s) == \E i \in DOMAIN Chars(s) : Chars(s)[i] = ","

\* Axis.append_option, lines 166-172: the list a value that is no list is turned
\* into.  "," in old is a TypeError for None and for a number, a test of the
\* keys for a dict; ",".split(old) is a TypeError for a dict.
append_option_coerced(old) ==
    LET
        \* ",".split(s), each part stripped: the string "," split at the separator s
        comma_split(s) == IF s = "," THEN <<VStr(""), VStr("")>> ELSE <<VStr(",")>>
    IN
    CASE old.t \in {"none", "num"} -> [raised |-> TRUE, list |-> << >>, warned |-> << >>]
      [] old.t = "map" ->
            IF "," \in DOMAIN old.v
            THEN [raised |-> TRUE, list |-> << >>, warned |-> <<"contains commas">>]
            ELSE [raised |-> FALSE, list |-> <<old>>, warned |-> << >>]
      [] OTHER ->
            IF has_comma(old.v)
            THEN [raised |-> FALSE, list |-> comma_split(old.v),
                  warned |-> <<"contains commas">>]
            ELSE [raised |-> FALSE, list |-> <<old>>, warned |-> << >>]

\* Axis.append_option
append_option_result(d, option, value) ==
    IF option \in DOMAIN d
    THEN IF d[option].t = "list"
         THEN [dict |-> DictSet(d, option, VList(Append(d[option].v, value))),
               raised |-> FALSE, warned |-> << >>]
         ELSE LET c == append_option_coerced(d[option])
              IN  IF c.raised
                  THEN [dict |-> d, raised |-> TRUE, warned |-> <<"not a list">> \o c.warned]
                  ELSE [dict |-> DictSet(d, option, VList(Append(c.list, value))),
                        raised |-> FALSE, warned |-> <<"not a list">> \o c.warned]
    ELSE [dict |-> DictSet(d, option, VList(<<value>>)), raised |-> FALSE, warned |-> << >>]

\* Axis.remove_option
remove_option_result(d, option) ==
    IF option \in DOMAIN d
    THEN [dict |-> [k \in (DOMAIN d) \ {option} |-> d[k]], warned |-> << >>]
    ELSE [dict |-> d, warned |-> <<"not found">>]

\* Axis.get_option
get_option(d, option) == IF option \in DOMAIN d THEN d[option] ELSE VNone

append_option(p, option, value) ==
    LET o == axes[p].options
        r == append_option_result(options[o], option, value)
    IN  /\ options' = [options EXCEPT ![o] = r.dict]
        /\ warnings' = warnings \o r.warned
        /\ last' = [n |-> last.n + 1, op |-> "append_option", axis |-> p, option |-> option,
                    value |-> value, update_fn |-> "", before |-> options,
                    warnings_before |-> warnings, called |-> FALSE, raised |-> r.raised]
        /\ UNCHANGED axes

remove_option(p, option) ==
    LET o == axes[p].options
        r == remove_option_result(options[o], option)
    IN  /\ options' = [options EXCEPT ![o] = r.dict]
        /\ warnings' = warnings \o r.warned
        /\ last' = [n |-> last.n + 1, op |-> "remove_option", axis |-> p, option |-> option,
                    value |-> VNone, update_fn |-> "", before |-> options,
                    warnings_before |-> warnings, called |-> FALSE, raised |-> FALSE]
        /\ UNCHANGED axes

add_option(p, option, value) ==
    LET o == axes[p].options
        r == add_option_result(options[o], option, value)
    IN  /\ options' = [options EXCEPT ![o] = r.dict]
        /\ warnings' = warnings \o r.warned
        /\ last' = [n |-> last.n + 1, op |-> "add_option", axis |-> p, option |-> option,
                    value |-> value, update_fn |-> "", before |-> options,
                    warnings_before |-> warnings, called |-> FALSE, raised |-> FALSE]
        /\ UNCHANGED axes

update_option(p, option, value, update_fn) ==
    LET o == axes[p].options
        r == update_option_result(options[o], option, value, update_fn)
    IN  /\ options' = [options EXCEPT ![o] = r.dict]
        /\ warnings' = warnings \o r.warned
        /\ last' = [n |-> last.n + 1, op |-> "update_option", axis |-> p, option |-> option,
                    value |-> value, update_fn |-> update_fn, before |-> options,
                    warnings_before |-> warnings, called |-> r.called, raised |-> r.raised]
        /\ UNCHANGED axes

(***************************************************************************)
(* Annotations: the points of the title search.  A text is the sequence of *)
(* its pieces (single special characters, "<br>", or runs of plain         *)
(* characters).                                                            *)
(***************************************************************************)
RECURSIVE ToStr(_)
ToStr(n) ==
    LET
        Digits == <<"0", "1", "2", "3", "4", "5", "6", "7", "8", "9">>
    IN
    IF n < 10 THEN Digits[n + 1] ELSE ToStr(n \div 10) \o Digits[(n % 10) + 1]

\* the text of the i-th annotation of a figure
AnnText(i) == <<"Plot", "_", ToStr(i)>>

\* a plotly Annotation, with the attributes the engine reads
Annotation(x, y, text) == [x |-> x, y |-> y, text |-> text]

Positions == (0..MaxCoord) \X (0..MaxCoord)

\* the lists of up to m annotations placed anywhere
FreeLists(m) ==
    UNION { { [i \in 1..n |-> Annotation(f[i][1], f[i][2], AnnText(i))] :
                f \in [1..n -> Positions] } : n \in 0..m }
\* figures with one annotation above every panel of a rows x cols layout, listed
\* in row-major order of the positions rotated by k, forwards or backwards
TitleList(rows, cols, k, backwards) ==
    LET n == rows * cols
        q(j) == LET r == (j - 1 + k) % n IN IF backwards THEN n - 1 - r ELSE r
    IN  [j \in 1..n |-> Annotation(q(j) % cols, q(j) \div cols, AnnText(j))]

TitleLists ==
    { TitleList(rows, cols, k, b) :
        rows \in 1..MaxRows, cols \in 1..MaxCols, k \in 0..(MaxRows * MaxCols - 1),
        b \in BOOLEAN }

\* the panel layouts: columns, rows and panels, the last row possibly incomplete
Layouts ==
    { l \in [n_x_domains : 1..MaxCols, n_y_domains : 1..MaxRows,
             n_trace_groups : 1..(MaxRows * MaxCols)] :
        /\ l.n_x_domains * (l.n_y_domains - 1) < l.n_trace_groups
        /\ l.n_trace_groups <= l.n_x_domains * l.n_y_domains }

(***************************************************************************)
(* find_subgrids (_utils.py) and check_grid (_save.py).                    *)
(***************************************************************************)
Min(a, b) == IF a <= b THEN a ELSE b

\* sorted(S)
RECURSIVE Sorted(_)
Sorted(S) ==
    IF S = {} THEN << >>
    ELSE LET m == CHOOSE m \in S : \A e \in S : m <= e
         IN  <<m>> \o Sorted(S \ {m})

\* s[::-1]
Reversed(s) == [i \in 1..Len(s) |-> s[Len(s) + 1 - i]]

\* s[:e] for a Python list
PySliceTo(s, e) ==
    IF e >= 0 THEN SubSeq(s, 1, Min(e, Len(s)))
    ELSE SubSeq(s, 1, Len(s) + e)

\* the elements of a sequence
Range(s) == { s[i] : i \in DOMAIN s }

\* the points of all cells of a sequence of cells
CellPoints(cells) == UNION { Range(cells[i]) : i \in DOMAIN cells }

\* the c-th column of a grid whose rows all have at least c cells
Column(grid, c) == [r \in DOMAIN grid |-> grid[r][c]]

\* check_grid, lines 383-405: the soft warnings, a cell counted as missing only
\* beyond the expected figures
grid_warnings_missing_beyond(grid, n_x_domains, n_figures) ==
    LET cells == { <<r, c>> \in (DOMAIN grid) \X (1..n_x_domains) : TRUE }
        plot_idx(rc) == (rc[1] - 1) * n_x_domains + (rc[2] - 1)
        warn_multiple_coords == \E rc \in cells : Len(grid[rc[1]][rc[2]]) > 1
        warn_extra_coords == \E rc \in cells : plot_idx(rc) >= n_figures
        warn_missing_coords ==
            \E rc \in cells : plot_idx(rc) >= n_figures /\ Len(grid[rc[1]][rc[2]]) = 0
    IN  (IF warn_multiple_coords THEN <<"Multiple titles found for a single subplot.">>
         ELSE << >>)
        \o (IF warn_missing_coords THEN <<"No titles found for a subplot.">> ELSE << >>)
        \o (IF warn_extra_coords THEN <<"Titles found for nonexistent subplots.">>
            ELSE << >>)

\* check_grid, lines 383-405: the soft warnings of a well-formed grid
grid_warnings(grid, n_x_domains, n_figures) ==
    LET cells == { <<r, c>> \in (DOMAIN grid) \X (1..n_x_domains) : TRUE }
        plot_idx(rc) == (rc[1] - 1) * n_x_domains + (rc[2] - 1)
        warn_multiple_coords == \E rc \in cells : Len(grid[rc[1]][rc[2]]) > 1
        warn_extra_coords == \E rc \in cells : plot_idx(rc) >= n_figures
        warn_missing_coords ==
            \E rc \in cells : plot_idx(rc) < n_figures /\ Len(grid[rc[1]][rc[2]]) = 0
    IN  (IF warn_multiple_coords THEN <<"Multiple titles found for a single subplot.">>
         ELSE << >>)
        \o (IF warn_missing_coords THEN <<"No titles found for a subplot.">> ELSE << >>)
        \o (IF warn_extra_coords THEN <<"Titles found for nonexistent subplots.">>
            ELSE << >>)

\* check_grid(grid, n_x_domains, n_y_domains, n_figures)
check_grid(grid, n_x_domains, n_y_domains, n_figures) ==
    IF Len(grid) # n_y_domains
    THEN [valid |-> FALSE,
          warnings |-> <<"Incorrect number of rows in grid; not parsing as titles.">>]
    ELSE IF ~(\A r \in DOMAIN grid : Len(grid[r]) = n_x_domains)
    THEN [valid |-> FALSE,
          warnings |-> <<"Incorrect number of columns in grid; not parsing as titles.">>]
    ELSE IF ~(\A r \in DOMAIN grid :
                Cardinality({ coord.y : coord \in CellPoints(grid[r]) }) = 1)
    THEN [valid |-> FALSE,
          warnings |->
            <<"Rows of grid do not have common y coordinates; not parsing as titles.">>]
    ELSE IF ~(\A c \in 1..n_x_domains :
                Cardinality({ coord.x : coord \in CellPoints(Column(grid, c)) }) = 1)
    THEN [valid |-> FALSE,
          warnings |->
            <<"Columns of grid do not have common x coordinates; not parsing as titles.">>]
    ELSE [valid |-> TRUE, warnings |-> grid_warnings(grid, n_x_domains, n_figures)]

\* find_subgrids, line 176: the distinct x coordinates, ascending
x_coords_of(coords) == Sorted({ coords[i].x : i \in DOMAIN coords })

\* find_subgrids, line 178: the distinct y coordinates, without the reversal
y_coords_ascending(coords) == Sorted({ coords[i].y : i \in DOMAIN coords })

\* find_subgrids, line 178: the distinct y coordinates, descending
y_coords_of(coords) == Reversed(Sorted({ coords[i].y : i \in DOMAIN coords }))

\* find_subgrids, lines 189-198: the grid of the exact-fit case
exact_grid(coords, x_coords, y_coords) ==
    [r \in DOMAIN y_coords |->
        [c \in DOMAIN x_coords |->
            LET at(coord) == coord.x = x_coords[c] /\ coord.y = y_coords[r]
            IN  SelectSeq(coords, at)]]

NoYield == [yields |-> << >>, raised |-> FALSE]
Raised == [yields |-> << >>, raised |-> TRUE]

RECURSIVE find_subgrids(_, _, _, _, _)

\* find_subgrids.subgrid_core.  Both callers pass a non-zero reducing_y (1 or
\* -1), which `if reducing_y' takes as true.  In an iteration, line 214 reads
\* coord.a and coord.b of the points: an AttributeError for an object without
\* them.  With them, every subgrid the recursive call yields reaches line 223
\* (or line 232), which reads a name that is not bound there: a NameError.  So
\* an iteration either raises or yields nothing.
subgrid_core(coords, xcs, ycs, nxd, nyd, reducing_y, n_entries, reduce_dirn) ==
    LET acs == IF reducing_y # 0 THEN ycs ELSE xcs
        nad == IF reducing_y # 0 THEN nyd ELSE nxd
        comp_sgn == IF reducing_y # 0 THEN 1 ELSE -1
        todo == PySliceTo(acs, -(nad - 1))
        raises(a) ==
            IF coords = << >> THEN FALSE
            ELSE IF \E i \in DOMAIN coords : ~({"a", "b"} \subseteq DOMAIN coords[i])
            THEN TRUE
            ELSE LET valid_bs == { coords[i].b : i \in { j \in DOMAIN coords : coords[j].a = a } }
                     keep(coord) == coord.b \in valid_bs /\ comp_sgn * coord.a < comp_sgn * a
                     sub == find_subgrids(SelectSeq(coords, keep),
                                          nxd - (IF reducing_y # 0 THEN 0 ELSE 1),
                                          nyd - (IF reducing_y # 0 THEN 1 ELSE 0),
                                          n_entries, 1 - reduce_dirn)
                 IN  sub.raised \/ sub.yields # << >>
    IN  IF \E i \in DOMAIN todo : raises(todo[i]) THEN Raised ELSE NoYield

\* find_subgrids(coords, n_x_domains, n_y_domains, n_entries, check_grid, reduce_dirn),
\* consumed to its end: the sequence of its yields, and whether it ended by raising
find_subgrids(coords, n_x_domains, n_y_domains, n_entries, reduce_dirn) ==
    LET x_coords == x_coords_of(coords)
        y_coords == y_coords_of(coords)
    IN  IF Len(x_coords) < n_x_domains \/ Len(y_coords) < n_y_domains
        THEN NoYield
        ELSE IF Len(x_coords) = n_x_domains /\ Len(y_coords) = n_y_domains
        THEN LET grid == exact_grid(coords, x_coords, y_coords)
                 chk == check_grid(grid, n_x_domains, n_y_domains,
                                   Min(n_x_domains * n_y_domains, n_entries))
             IN  IF ~chk.valid THEN NoYield
                 ELSE [yields |-> << [grid |-> grid, x_coords |-> x_coords,
                                      y_coords |-> y_coords, warnings |-> chk.warnings] >>,
                       raised |-> FALSE]
        ELSE IF Len(x_coords) = n_x_domains \/ reduce_dirn = 1
        THEN subgrid_core(coords, x_coords, y_coords, n_x_domains, n_y_domains, 1,
                          n_entries, reduce_dirn)
        ELSE subgrid_core(coords, x_coords, y_coords, n_x_domains, n_y_domains, -1,
                          n_entries, reduce_dirn)

(***************************************************************************)
(* The store specification: panels are built, then any caller applies      *)
(* store operations to any panel.                                          *)
(***************************************************************************)
NoFig == [n_x_domains |-> 0, n_y_domains |-> 0, n_trace_groups |-> 0,
          annotations |-> << >>, title |-> VNone, title_font_size |-> 0,
          plot_bgcolor |-> VNone]
NoFound == [attempt |-> "none", grid |-> << >>, warnings |-> << >>]
NoCall == [fn |-> "none"]

RenderIdle ==
    /\ fig = NoFig
    /\ pc = "idle"
    /\ annotations = << >>
    /\ stack_env = << >>
    /\ code = << >>
    /\ found = NoFound
    /\ colors_set = {}

Init ==
    /\ \E axis_options \in AxisOptionsInputs : AxesBuilt(axis_options, VNone, StorePanels)
    /\ warnings = << >>
    /\ last = NoOp
    /\ RenderIdle
    /\ call = NoCall

AddOption ==
    /\ last.n < MaxOps
    /\ \E p \in DOMAIN axes, option \in Keys, value \in Values : add_option(p, option, value)
    /\ UNCHANGED <<renderVars, call>>

UpdateOption ==
    LET
        \* The merge functions the callers pass to update_option; draw_heatmap also
        \* passes max and min, on numbers (on None, strings and dicts they raise), and
        \* draw_bar passes x if y in x else x + y, on lists.
        UpdateFns == {"a | b", "b | a", "a if a is not None else b"}
    IN
    /\ last.n < MaxOps
    /\ \E p \in DOMAIN axes, option \in Keys, value \in Values, update_fn \in UpdateFns :
            update_option(p, option, value, update_fn)
    /\ UNCHANGED <<renderVars, call>>

AppendOption ==
    LET
        \* the values append_option is exercised with
        AppendValues == { VNum(1), VStr("false") }
    IN
    /\ last.n < MaxOps
    /\ \E p \in DOMAIN axes, option \in Keys, value \in AppendValues :
            append_option(p, option, value)
    /\ UNCHANGED <<renderVars, call>>

RemoveOption ==
    /\ last.n < MaxOps
    /\ \E p \in DOMAIN axes, option \in Keys : remove_option(p, option)
    /\ UNCHANGED <<renderVars, call>>

Next == AddOption \/ UpdateOption \/ AppendOption \/ RemoveOption

Spec == Init /\ [][Next]_vars

(***************************************************************************)
(* The search specification: find_subgrids is called on the annotations    *)
(* of a figure as get_tikz_code calls it, for the full grid (line 408) or  *)
(* for the first row (line 429), and consumed to its end.                  *)
(***************************************************************************)
StoreIdle ==
    /\ options = << >>
    /\ axes = << >>
    /\ warnings = << >>
    /\ last = NoOp

Figure(layout, anns, title, size) ==
    [n_x_domains |-> layout.n_x_domains, n_y_domains |-> layout.n_y_domains,
     n_trace_groups |-> layout.n_trace_groups, annotations |-> anns,
     title |-> title, title_font_size |-> size, plot_bgcolor |-> VNone]

InitGrid ==
    LET
        ShortLists == FreeLists(MaxAnn)
    IN
    /\ StoreIdle
    /\ \E layout \in Layouts, anns \in ShortLists \cup TitleLists :
            fig = Figure(layout, anns, VNone, 0)
    /\ pc = "idle"
    /\ annotations = << >>
    /\ stack_env = << >>
    /\ code = << >>
    /\ found = NoFound
    /\ colors_set = {}
    /\ call = NoCall

FindFullGrid ==
    /\ call = NoCall
    /\ call' = [fn |-> "find_subgrids", coords |-> fig.annotations,
                n_x_domains |-> fig.n_x_domains, n_y_domains |-> fig.n_y_domains,
                n_entries |-> fig.n_trace_groups,
                result |-> find_subgrids(fig.annotations, fig.n_x_domains, fig.n_y_domains,
                                         fig.n_trace_groups, 0)]
    /\ UNCHANGED <<storeVars, renderVars>>

FindFirstRow ==
    /\ call = NoCall
    /\ call' = [fn |-> "find_subgrids", coords |-> fig.annotations,
                n_x_domains |-> fig.n_x_domains, n_y_domains |-> 1,
                n_entries |-> fig.n_x_domains,
                result |-> find_subgrids(fig.annotations, fig.n_x_domains, 1,
                                         fig.n_x_domains, 0)]
    /\ UNCHANGED <<storeVars, renderVars>>

NextGrid == FindFullGrid \/ FindFirstRow

SpecGrid == InitGrid /\ [][NextGrid]_vars

(***************************************************************************)
(* Text formatting (_tex.py, _defaults.py, _utils.py).                     *)
(***************************************************************************)
\* tex_text on one piece of a text
tex_piece(p) ==
    CASE p = "<br>" -> "\\\\ "
      [] p = "\n" -> "\\\\ "
      [] p = "%" -> "\\%"
      [] p = "_" -> "\\_"
      [] p = "&" -> "\\&"
      [] p = "#" -> "\\#"
      [] p = "$" -> "\\$"
      [] p = "{" -> "\\{"
      [] p = "}" -> "\\}"
      [] p = "~" -> "\\textasciitilde "
      [] OTHER -> p

RECURSIVE tex_text(_)
tex_text(text) == IF text = << >> THEN "" ELSE tex_piece(Head(text)) \o tex_text(Tail(text))

\* sanitize_TeX_char on one piece
sanitize_TeX_piece(p) == IF p \in {"_", "{", "}"} THEN "\\" \o p ELSE p

RECURSIVE sanitize_join(_)
sanitize_join(text) ==
    IF text = << >> THEN "" ELSE sanitize_TeX_piece(Head(text)) \o sanitize_join(Tail(text))

\* sanitize_TeX_text
sanitize_TeX_text(text) ==
    IF \E i \in DOMAIN text : text[i] \in {"[", "]"}
    THEN "{" \o sanitize_join(text) \o "}"
    ELSE sanitize_join(text)

\* "\n".join(ann.text for ann in cell)
RECURSIVE join_texts(_)
join_texts(cell) ==
    IF cell = << >> THEN << >>
    ELSE IF Len(cell) = 1 THEN cell[1].text
    ELSE cell[1].text \o <<"\n">> \o join_texts(Tail(cell))

FONT_SIZE_RANGES ==
    << <<"tiny", 6>>, <<"scriptsize", 8>>, <<"footnotesize", 10>>, <<"small", 11>>,
       <<"normalsize", 12>>, <<"large", 14>>, <<"Large", 17>>, <<"LARGE", 20>>,
       <<"huge", 25>>, <<"Huge", 30>> >>

get_latex_equiv_font_size(in_size) ==
    LET fits == { i \in DOMAIN FONT_SIZE_RANGES : in_size <= FONT_SIZE_RANGES[i][2] }
    IN  IF fits = {} THEN "Huge"
        ELSE FONT_SIZE_RANGES[CHOOSE i \in fits : \A j \in fits : i <= j][1]

latex_size_fmt(size) == "\\" \o get_latex_equiv_font_size(size)
latex_text_size_fmt(text, size) == latex_size_fmt(size) \o " " \o tex_text(text)

DefaultTitleFontSize == 20

\* figure_layout, as far as the engine reads it; a font size of 0 stands for None
LayoutOf(f) == [t |-> "layout", title_text |-> f.title, title_font_size |-> f.title_font_size]

\* get_title_font_size(figure_layout): reads figure_layout.title.font.size, an
\* AttributeError when the argument is not a layout
get_title_font_size(figure_layout) ==
    IF figure_layout.t # "layout" THEN [raised |-> TRUE, val |-> 0]
    ELSE [raised |-> FALSE,
          val |-> IF figure_layout.title_font_size = 0 THEN DefaultTitleFontSize
                  ELSE figure_layout.title_font_size]

(***************************************************************************)
(* get_tikz_code.                                                          *)
(***************************************************************************)
groupplots == fig.n_trace_groups > 1

\* the colours of the figures: the background of the plots and the font of an
\* annotation; the second is a colour LaTeX knows by name
PlotBgColor == "E5ECF6"
FontColor == "red"

\* convert_color (_color.py): name, colour space, components and opacity of a colour
convert_color(color) ==
    IF color = FontColor THEN <<color, "none", "none", 1>> ELSE <<color, "HTML", color, 1>>

\* list(colors_set) after sort(), line 353-354
color_list(colors) ==
    LET in_set(c) == c \in colors
    IN  SelectSeq(<<SubSeq(convert_color(PlotBgColor), 1, 3),
                    SubSeq(convert_color(FontColor), 1, 3)>>, in_set)

\* tex_add_color for every colour of a list, lines 355-356: a colour without a
\* colour space gets no definition
RECURSIVE tex_add_colors(_)
tex_add_colors(list) ==
    IF list = << >> THEN << >>
    ELSE (IF list[1][2] # "none"
          THEN <<[kind |-> "definecolor", name |-> list[1][1]]>> ELSE << >>)
         \o tex_add_colors(Tail(list))

\* the figures that are rendered; those with a title font size have a plot background
RenderFigs ==
    LET
        \* title lists in which one more annotation lies on the point of the first title
        DoubledLists ==
            { Append(l, Annotation(l[1].x, l[1].y, AnnText(Len(l) + 1))) : l \in TitleLists }
        FigTitleSizes == {0, 14}
        FigTitles == { VNone, [t |-> "text", v |-> <<"Fig", "_", "A">>] }
    IN
    { [Figure(layout, anns, title, size) EXCEPT
            !.plot_bgcolor = IF size = 0 THEN VNone ELSE VStr(PlotBgColor)] :
        layout \in Layouts, anns \in FreeLists(MaxFree) \cup TitleLists \cup DoubledLists,
        title \in FigTitles, size \in FigTitleSizes }

InitRender ==
    /\ StoreIdle
    /\ fig \in RenderFigs
    /\ pc = "start"
    /\ annotations = << >>
    /\ stack_env = << >>
    /\ code = << >>
    /\ found = NoFound
    /\ colors_set = {}
    /\ call = NoCall

\* Axis.__init__, lines 62-69: the background of the plot
axis_background(d, layout) ==
    IF layout.plot_bgcolor = VNone THEN d
    ELSE add_option_result(d, "axis background/.style",
            VStr("{fill=" \o convert_color(layout.plot_bgcolor.v)[1] \o "}")).dict

\* lines 120-122 and 171-337: one Axis per trace group, without axis_options;
\* the layout has the default axis settings but for the background, so the
\* other option set is the default scale (lines 234-237)
BuildPanels ==
    /\ pc = "start"
    /\ LET n == fig.n_trace_groups
           built == BuiltOptions([kind |-> "none"], n)
       IN  /\ axes' = BuiltAxes([kind |-> "none"], fig.title, n)
           /\ options' = [o \in DOMAIN built |->
                            IF o = ArgObj THEN built[o]
                            ELSE LET d == axis_background(built[o], fig)
                                 IN  IF "scale" \notin DOMAIN d
                                     THEN add_option_result(d, "scale", VNum(1)).dict
                                     ELSE d]
    /\ colors_set' = IF fig.plot_bgcolor = VNone THEN colors_set
                     ELSE colors_set \cup {SubSeq(convert_color(fig.plot_bgcolor.v), 1, 3)}
    /\ warnings' = warnings \o (IF groupplots THEN <<"Using groupplots">> ELSE << >>)
    /\ pc' = "picture"
    /\ UNCHANGED <<last, fig, annotations, stack_env, code, found, call>>

\* lines 340-365: the tikzpicture and, with several panels, the groupplot
BeginPicture ==
    /\ pc = "picture"
    /\ stack_env' = stack_env \o <<"tikzpicture">>
                        \o (IF groupplots THEN <<"groupplot">> ELSE << >>)
    /\ code' = code \o <<[kind |-> "begin", name |-> "tikzpicture"]>>
                    \o tex_add_colors(color_list(colors_set))
                    \o (IF groupplots THEN <<[kind |-> "begin", name |-> "groupplot"]>>
                        ELSE << >>)
    /\ annotations' = fig.annotations
    /\ pc' = IF groupplots THEN "titles" ELSE "panels"
    /\ UNCHANGED <<storeVars, fig, found, colors_set, call>>

\* lines 418 and 437: the cell (row, column) whose annotations panel i gets, columns
\* counted from the right
title_cell_from_right(i, n_x_domains, n_y_domains) ==
    <<(i \div n_x_domains) + 1, n_x_domains - (i % n_x_domains)>>

\* lines 418 and 437: the cell (row, column) whose annotations panel i gets
title_cell(i, n_x_domains, n_y_domains) == <<(i \div n_x_domains) + 1, (i % n_x_domains) + 1>>

\* lines 420-421 and 439-440: the title option made of a cell's annotations
title_value(cell, figure_layout) ==
    VMap(Dict1(latex_text_size_fmt(join_texts(cell), get_title_font_size(figure_layout).val),
               VNone))

\* lines 416-421 and 436-440: add_option("title", ...) on panels first..count, in order
RECURSIVE add_titles(_, _, _, _, _)
add_titles(grid, i, count, opts, warns) ==
    IF i >= count THEN [options |-> opts, warnings |-> warns]
    ELSE LET rc == title_cell(i, fig.n_x_domains, fig.n_y_domains)
             o == axes[i + 1].options
             r == add_option_result(opts[o], "title",
                                    title_value(grid[rc[1]][rc[2]], LayoutOf(fig)))
         IN  add_titles(grid, i + 1, count, [opts EXCEPT ![o] = r.dict], warns \o r.warned)

\* lines 415-424: the annotations of the first count cells are removed from the list
RECURSIVE removed_annotations(_, _, _)
removed_annotations(grid, i, count) ==
    IF i >= count THEN {}
    ELSE LET rc == title_cell(i, fig.n_x_domains, fig.n_y_domains)
         IN  Range(grid[rc[1]][rc[2]]) \cup removed_annotations(grid, i + 1, count)

\* lines 407-460: the annotations are taken as panel titles if they form a grid
InferTitles ==
    /\ pc = "titles"
    /\ LET full == find_subgrids(annotations, fig.n_x_domains, fig.n_y_domains,
                                 fig.n_trace_groups, 0)
           row == find_subgrids(annotations, fig.n_x_domains, 1, fig.n_x_domains, 0)
           use(attempt, y, count, said) ==
               LET r == add_titles(y.grid, 0, count, options, warnings \o said)
                   gone == removed_annotations(y.grid, 0, count)
                   stays(ann) == ann \notin gone
               IN  /\ options' = r.options
                   /\ warnings' = r.warnings
                   /\ annotations' = SelectSeq(annotations, stays)
                   /\ found' = [attempt |-> attempt, grid |-> y.grid, warnings |-> y.warnings]
                   /\ pc' = "panels"
           fail(said) ==
               /\ found' = [attempt |-> "raised", grid |-> << >>, warnings |-> << >>]
               /\ pc' = "raised"
               /\ warnings' = warnings \o said
               /\ UNCHANGED <<options, annotations>>
       IN  IF full.yields # << >>
           THEN use("full", full.yields[1], fig.n_trace_groups,
                    <<"Assuming annotations are titles">> \o full.yields[1].warnings)
           ELSE IF full.raised THEN fail(<< >>)
           ELSE IF row.raised THEN fail(<< >>)
           ELSE IF Len(row.yields) = 1
           THEN use("row", row.yields[1], fig.n_x_domains,
                    <<"Assuming annotations are first-row titles">>)
           ELSE IF Len(row.yields) > 1
           THEN \* line 447: the key of max reads coord.y of a list: AttributeError
                fail(<<"Assuming annotations are first-row titles, several rows">>)
           ELSE /\ found' = [attempt |-> "nothing", grid |-> << >>, warnings |-> << >>]
                /\ pc' = "panels"
                /\ UNCHANGED <<options, warnings, annotations>>
    /\ UNCHANGED <<axes, last, fig, stack_env, code, colors_set, call>>

\* Axis.get_options_string: a figure title replaces the panel's title option
get_options_string(d, p) ==
    IF axes[p].title # VNone
    THEN DictSet(d, "title", VStr(sanitize_TeX_text(axes[p].title.v)))
    ELSE d

\* lines 462-470: panels first.., in order; each is opened, filled and closed
RECURSIVE emit_panels(_, _, _)
emit_panels(p, opts, out) ==
    IF p > Len(axes) THEN [options |-> opts, code |-> out]
    ELSE LET o == axes[p].options
             d == get_options_string(opts[o], p)
         IN  emit_panels(p + 1, [opts EXCEPT ![o] = d],
                 out \o (IF groupplots
                         THEN <<[kind |-> "nextgroupplot", panel |-> p, options |-> d]>>
                         ELSE <<[kind |-> "begin", name |-> "axis", panel |-> p,
                                 options |-> d],
                                [kind |-> "end", name |-> "axis"]>>)
                     \o <<[kind |-> "normalsize"]>>)

\* lines 462-473: the panels, then the end of the groupplot
EmitPanels ==
    /\ pc = "panels"
    /\ LET r == emit_panels(1, options, code)
       IN  /\ options' = r.options
           /\ code' = r.code \o (IF groupplots THEN <<[kind |-> "end", name |-> "groupplot"]>>
                                 ELSE << >>)
    /\ stack_env' = IF groupplots THEN SubSeq(stack_env, 1, Len(stack_env) - 1)
                    ELSE stack_env
    /\ pc' = "figtitle"
    /\ UNCHANGED <<axes, warnings, last, fig, annotations, found, colors_set, call>>

\* lines 475-504: the figure title.  With annotations left, line 490 calls
\* get_title_font_size on the font size instead of the layout.
FigureTitle ==
    /\ pc = "figtitle"
    /\ IF fig.title # VNone /\ fig.title.v # << >>
       THEN IF annotations # << >>
            THEN IF get_title_font_size(VNum(fig.title_font_size)).raised
                 THEN pc' = "raised" /\ UNCHANGED <<annotations, code>>
                 ELSE /\ annotations' =
                            Append(annotations, Annotation(0, 0, fig.title.v))
                      /\ pc' = "annotations"
                      /\ UNCHANGED code
            ELSE /\ code' = Append(code, [kind |-> "node", name |-> "title"])
                 /\ pc' = "annotations"
                 /\ UNCHANGED annotations
       ELSE pc' = "annotations" /\ UNCHANGED <<annotations, code>>
    /\ UNCHANGED <<storeVars, fig, stack_env, found, colors_set, call>>

StrFromAnnotationParams == 4    \* parameters of str_from_annotation
StrFromAnnotationArgs == 5      \* positional arguments of the call at line 506

\* lines 506-511: the annotations, the closing of the environments, the return.
\* The call of str_from_annotation passes more positional arguments than the
\* function takes: a TypeError.
EmitAnnotations ==
    /\ pc = "annotations"
    /\ IF StrFromAnnotationArgs > StrFromAnnotationParams
       THEN /\ pc' = "raised"
            /\ call' = [fn |-> "str_from_annotation", given |-> StrFromAnnotationArgs,
                        raised |-> TRUE]
            /\ UNCHANGED <<storeVars, stack_env, code>>
       ELSE /\ code' = code \o [i \in 1..Len(stack_env) |->
                                  [kind |-> "end", name |-> stack_env[Len(stack_env) + 1 - i]]]
            /\ stack_env' = << >>
            /\ pc' = "done"
            /\ call' = [fn |-> "str_from_annotation", given |-> StrFromAnnotationArgs,
                        raised |-> FALSE]
            /\ UNCHANGED storeVars
    /\ UNCHANGED <<fig, annotations, found, colors_set>>

NextRender == BuildPanels \/ BeginPicture \/ InferTitles \/ EmitPanels \/ FigureTitle
                \/ EmitAnnotations

SpecRender == InitRender /\ [][NextRender]_vars

(***************************************************************************)
(* draw_heatmap (_heatmap.py) on one panel.                                *)
(***************************************************************************)
MaxZRows == 2          \* rows of the matrix of a heatmap
MaxZCols == 2          \* columns of the matrix of a heatmap

\* data.z: None, or the rows of a matrix, which may have no rows or no columns
ZInputs ==
    LET
        \* an R x C matrix with a different value in every cell
        Matrix(R, C) == [j \in 1..R |-> [i \in 1..C |-> 10 * (j - 1) + i]]
    IN
    { [kind |-> "none", rows |-> << >>] }
        \cup { [kind |-> "rows", rows |-> Matrix(R, C)] : R \in 0..MaxZRows, C \in 0..MaxZCols }

\* np.array(data.z).shape
shape_of(z) == IF z.rows = << >> THEN <<0>> ELSE <<Len(z.rows), Len(z.rows[1])>>

\* the options the panel holds when draw_heatmap is called
HeatmapStores ==
    { EmptyDict,
      [k \in {"height", "width"} |-> VNum(100)],
      Dict1("xtick style", VMap(Dict1("color", VStr("black")))),
      Dict1("height", VNone) }

\* the options argument of draw_heatmap, as its items in order
HeatmapOptions ==
    { << >>,
      << <<"height", VNum(200)>> >>,
      << <<"xtick style", VMap(Dict1("color", VStr("red")))>> >>,
      << <<"xtick style", VMap(Dict1("draw", VStr("solid")))>>, <<"width", VNum(200)>> >> }

\* the height and the width get_tikz_code passes, in px; all the divisions of
\* draw_heatmap on them are exact for the matrices above
HeatmapHeight == 1200
HeatmapWidth == 1200

PLOTLY_DEFAULT_AXIS_DISPLAY_OPTIONS ==
    LET
        \* a float that is no whole number, by its text
        VFloat(text) == [t |-> "float", v |-> text]
    IN
    << <<"xtick style", VMap(Dict1("draw", VStr("none")))>>,
       <<"ytick style", VMap(Dict1("draw", VStr("none")))>>,
       <<"x tick label style", VMap(Dict1("font", VStr("\\normalsize")))>>,
       <<"y tick label style",
         VMap([k \in {"left", "font"} |-> IF k = "left" THEN VNone ELSE VStr("\\normalsize")])>>,
       <<"axis line style", VMap(Dict1("draw", VStr("none")))>>,
       <<"tick align", VStr("outside")>>,
       <<"major tick length", VFloat("1.75")>> >>

\* draw_heatmap.set_opts, lines 85-96: the merge function chosen for one item
set_opts_fn(d, key, value, override) ==
    IF value.t = "map" /\ get_option(d, key).t = "map"
    THEN (IF override THEN "a | b" ELSE "b | a")
    ELSE "a if a is not None else b"

\* draw_heatmap.set_opts: update_option for every item, in order
RECURSIVE set_opts(_, _, _)
set_opts(r, opts, override) ==
    IF opts = << >> THEN r
    ELSE LET key == Head(opts)[1]
             value == Head(opts)[2]
             u == update_option_result(r.dict, key, value,
                                       set_opts_fn(r.dict, key, value, override))
         IN  set_opts([dict |-> u.dict, warned |-> r.warned \o u.warned], Tail(opts), override)

\* a sequence of add_option calls, given as <<key, value>> in order
RECURSIVE add_options(_, _)
add_options(r, items) ==
    IF items = << >> THEN r
    ELSE LET u == add_option_result(r.dict, Head(items)[1], Head(items)[2])
         IN  add_options([dict |-> u.dict, warned |-> r.warned \o u.warned], Tail(items))

\* a sequence of update_option calls, given as <<key, value, update_fn>> in order
RECURSIVE update_options(_, _)
update_options(r, items) ==
    IF items = << >> THEN r
    ELSE LET u == update_option_result(r.dict, Head(items)[1], Head(items)[2], Head(items)[3])
         IN  update_options([dict |-> u.dict, warned |-> r.warned \o u.warned], Tail(items))

\* the store of the panel of the heatmap, and a step on it
HeatmapPanel == 1
HeatmapStore == options[HeatmapPanel]
Started(d) == [dict |-> d, warned |-> << >>]

\* one step of draw_heatmap that leaves the store as r says and goes to next
HeatmapStep(step, r, next) ==
    /\ options' = [options EXCEPT ![HeatmapPanel] = r.dict]
    /\ warnings' = warnings \o r.warned
    /\ last' = [NoOp EXCEPT !.n = last.n + 1, !.op = step, !.axis = HeatmapPanel,
                            !.before = options, !.warnings_before = warnings]
    /\ pc' = next
    /\ UNCHANGED <<axes, fig, annotations, stack_env, code, found, colors_set>>

\* a step at which draw_heatmap raises
HeatmapRaise(step) ==
    /\ last' = [NoOp EXCEPT !.n = last.n + 1, !.op = step, !.axis = HeatmapPanel,
                            !.before = options, !.warnings_before = warnings,
                            !.raised = TRUE]
    /\ pc' = "raised"
    /\ UNCHANGED <<options, warnings, axes, fig, annotations, stack_env, code, found,
                   colors_set>>

InitHeatmap ==
    /\ \E d \in HeatmapStores :
        /\ options = [o \in 0..HeatmapPanel |-> IF o = HeatmapPanel THEN d ELSE EmptyDict]
    /\ axes = [p \in 1..HeatmapPanel |-> [options |-> HeatmapPanel, title |-> VNone]]
    /\ warnings = << >>
    /\ last = NoOp
    /\ fig = NoFig
    /\ pc = "set explicit"
    /\ annotations = << >>
    /\ stack_env = << >>
    /\ code = << >>
    /\ found = NoFound
    /\ colors_set = {}
    /\ \E z \in ZInputs, texttemplate \in BOOLEAN, opts \in HeatmapOptions :
        call = [fn |-> "draw_heatmap", z |-> z, texttemplate |-> texttemplate,
                options |-> opts, x |-> VNone, y |-> VNone, colorscale |-> VNone,
                showscale |-> VNone, coloraxis_showscale |-> VNone,
                coloraxis_colorscale |-> VNone, data_str |-> << >>,
                annotations_strs |-> << >>]

\* line 99: set_opts(options, override=True)
SetExplicit ==
    /\ pc = "set explicit"
    /\ HeatmapStep("set_opts explicit", set_opts(Started(HeatmapStore), call.options, TRUE),
                   "set defaults")
    /\ UNCHANGED call

\* line 102: set_opts(PLOTLY_DEFAULT_AXIS_DISPLAY_OPTIONS, override=False)
SetDefaults ==
    /\ pc = "set defaults"
    /\ HeatmapStep("set_opts defaults",
                   set_opts(Started(HeatmapStore), PLOTLY_DEFAULT_AXIS_DISPLAY_OPTIONS, FALSE),
                   "setup")
    /\ UNCHANGED call

\* lines 106-125: the view from the top, the colour bar, the colour map, the scale
SetupView ==
    /\ pc = "setup"
    /\ LET view == [t |-> "tuple", v |-> <<VMap(Dict1("0", VNone)), VMap(Dict1("90", VNone))>>]
           bar == IF call.coloraxis_showscale # [t |-> "bool", v |-> FALSE]
                  THEN << <<"colorbar", VNone>>,
                          <<"colorbar style",
                            VMap([k \in {"ytick style", "axis line style"} |->
                                    VMap(Dict1("draw", VStr("none")))])>> >>
                  ELSE << >>
           map == IF call.colorscale # VNone
                  THEN << <<"colormap", [t |-> "colorscale", v |-> call.colorscale]>> >>
                  ELSE IF call.coloraxis_colorscale # VNone
                  THEN << <<"colormap", [t |-> "colorscale", v |-> call.coloraxis_colorscale]>> >>
                  ELSE IF call.showscale # [t |-> "bool", v |-> FALSE]
                  THEN << <<"colormap", [t |-> "colorscale", v |-> VStr("default")]>> >>
                  ELSE << >>
           r == add_options(Started(HeatmapStore), <<<<"view", view>>>> \o bar \o map)
           scaled == IF "scale" \notin DOMAIN r.dict
                     THEN add_options(r, << <<"scale", VNum(1)>> >>)
                     ELSE r
       IN  HeatmapStep("setup", scaled, "rasterize")
    /\ UNCHANGED call

EpsInv == 1000000      \* 1 / 0.000001: coordinates are counted in units of 0.000001

\* line 161: the coordinate of mesh column (or row) i, from 0, with the skirt added
mesh_coord_skirt_added(i) == ((i + 1) \div 2) * EpsInv + (i % 2)

\* line 161: the coordinate of mesh column (or row) i, from 0
mesh_coord(i) == ((i + 1) \div 2) * EpsInv - (i % 2)

\* lines 149-154: the mesh value without the assignment of line 155
grid_value_three_blocks(figure_data, j, i) ==
    IF j % 2 = 1 /\ i % 2 = 1 THEN 0
    ELSE figure_data[((j - (j % 2)) \div 2) + 1][((i - (i % 2)) \div 2) + 1]

\* lines 149-155: grid[j, i], j and i from 0, after the four strided assignments
grid_value(figure_data, j, i) ==
    figure_data[((j - (j % 2)) \div 2) + 1][((i - (i % 2)) \div 2) + 1]

\* lines 127-162: the table; without data the call returns here, with rows it
\* needs shape[1], which np.array of no rows does not have
Rasterize ==
    /\ pc = "rasterize"
    /\ IF call.z.kind = "none"
       THEN /\ HeatmapStep("return empty", Started(HeatmapStore), "done")
            /\ UNCHANGED call
       ELSE IF Len(shape_of(call.z)) < 2
       THEN HeatmapRaise("rasterize") /\ UNCHANGED call
       ELSE LET shape == shape_of(call.z)
            IN  /\ call' = [call EXCEPT !.data_str =
                                [j \in 1..(2 * shape[1]) |->
                                    [i \in 1..(2 * shape[2]) |->
                                        [x |-> mesh_coord(i - 1), y |-> mesh_coord(j - 1),
                                         z |-> grid_value(call.z.rows, j - 1, i - 1)]]]]
                /\ HeatmapStep("rasterize", Started(HeatmapStore), "ticks")

SetTicks ==
    LET
        index_labels(n) == VList([i \in 1..n |-> VStr(tex_text(<<ToStr(i - 1)>>))])
        \* lines 165-181: ticks at the centres of the squares, their labels, no z ticks
        tick_list(n) == VList([i \in 1..n |-> VStr(ToStr(i - 1) \o ".5")])
    IN
    /\ pc = "ticks"
    /\ LET shape == shape_of(call.z)
           none == VMap(Dict1("draw", VStr("none")))
       IN  HeatmapStep("ticks",
               add_options(Started(HeatmapStore),
                   << <<"xtick", tick_list(shape[2])>>,
                      <<"xtick style", none>>,
                      <<"xticklabels", IF call.x # VNone THEN call.x ELSE index_labels(shape[2])>>,
                      <<"ytick", tick_list(shape[1])>>,
                      <<"ytick style", none>>,
                      <<"yticklabels", IF call.y # VNone THEN call.y ELSE index_labels(shape[1])>>,
                      <<"ztick", VMap(EmptyDict)>>,
                      <<"zticklabels", VMap(EmptyDict)>>,
                      <<"ztick style", none>> >>),
               "rotate")
    /\ UNCHANGED call

\* _defaults.py, get_axis_latex_font_size with its default: the assignment of the
\* size sits under a test that never holds, so the default is what is returned
AxisFontSizeDefault == 12

\* _defaults.py, needs_rotate: the store after it; it returns None on every path
needs_rotate(r, labels_key, per_label_width) ==
    LET
        \* the longest label of a list option
        max_label_length(labels) ==
            CHOOSE n \in { Len(labels[i].v) : i \in DOMAIN labels } :
                \A i \in DOMAIN labels : Len(labels[i].v) <= n
    IN
    IF get_option(r.dict, labels_key) = VNone
    THEN [dict |-> r.dict, warned |-> r.warned \o <<"not rotating">>]
    ELSE IF max_label_length(get_option(r.dict, labels_key).v) * AxisFontSizeDefault
                > per_label_width
    THEN update_options(r,
            << <<"x tick label style",
                 VMap([k \in {"rotate", "right"} |->
                        IF k = "right" THEN VNone
                        ELSE IF per_label_width - 2 * 2 * AxisFontSizeDefault < 0
                        THEN VNum(0 - 90) ELSE VNum(0 - 30)]),
                 "b | a">> >>)
    ELSE r

\* lines 183-188: the rotation of the x tick labels.  .get on a value that is no
\* dict is an AttributeError; width / shape[1] with no columns a ZeroDivisionError.
RotateLabels ==
    /\ pc = "rotate"
    /\ LET style == get_option(HeatmapStore, "x tick label style")
           shape == shape_of(call.z)
       IN  IF style.t # "map" THEN HeatmapRaise("rotate")
           ELSE IF "rotate" \in DOMAIN style.v /\ style.v["rotate"] # VNone
           THEN HeatmapStep("rotate", Started(HeatmapStore), "limits")
           ELSE IF shape[2] = 0 THEN HeatmapRaise("rotate")
           ELSE HeatmapStep("rotate",
                    needs_rotate(Started(HeatmapStore), "xticklabels",
                                 HeatmapWidth \div shape[2]),
                    "limits")
    /\ UNCHANGED call

\* the values of a matrix
matrix_values(rows) == UNION { { rows[j][i] : i \in DOMAIN rows[j] } : j \in DOMAIN rows }
\* lines 190-204: the range of the values and of the axes; np.nanmax of an array
\* without elements is a ValueError
SetLimits ==
    LET
        nanmin(rows) == CHOOSE m \in matrix_values(rows) : \A v \in matrix_values(rows) : m <= v
        nanmax(rows) == CHOOSE m \in matrix_values(rows) : \A v \in matrix_values(rows) : v <= m
    IN
    /\ pc = "limits"
    /\ LET shape == shape_of(call.z)
       IN  IF matrix_values(call.z.rows) = {} THEN HeatmapRaise("limits")
           ELSE LET r == update_options(Started(HeatmapStore),
                            << <<"point meta max", VNum(nanmax(call.z.rows)), "max">>,
                               <<"point meta min", VNum(nanmin(call.z.rows)), "min">>,
                               <<"xmin", VNum(0), "min">>,
                               <<"xmax", VNum(shape[2]), "max">>,
                               <<"ymin", VNum(0), "min">>,
                               <<"ymax", VNum(shape[1]), "max">> >>)
                    x == IF get_option(r.dict, "xtick") = VStr("data")
                         THEN remove_option_result(r.dict, "xmin")
                         ELSE [dict |-> r.dict, warned |-> << >>]
                    xx == IF get_option(r.dict, "xtick") = VStr("data")
                          THEN remove_option_result(x.dict, "xmax")
                          ELSE [dict |-> x.dict, warned |-> << >>]
                IN  HeatmapStep("limits",
                        [dict |-> xx.dict, warned |-> r.warned \o x.warned \o xx.warned],
                        "size")
    /\ UNCHANGED call

\* _utils.py, px_to_pt, for the sizes of this model, which are whole points
px_to_pt(px) == (px * 3) \div 4

\* lines 213-220: square boxes, unless the height and the width are set
SetSize ==
    /\ pc = "size"
    /\ LET shape == shape_of(call.z)
           box_height == HeatmapHeight \div shape[1]
           box_width == HeatmapWidth \div shape[2]
           box_dim == Min(box_height, box_width)
       IN  HeatmapStep("size",
               update_options(Started(HeatmapStore),
                   << <<"height", VNum(px_to_pt(box_dim * shape[1])),
                        "a if a is not None else b">>,
                      <<"width", VNum(px_to_pt(box_dim * shape[2])),
                        "a if a is not None else b">> >>),
               "text")
    /\ UNCHANGED call

\* line 231: figure_data[j, i] with i over the rows and j over the columns is an
\* IndexError as soon as the matrix is not square
text_index_error(shape) == shape[1] # shape[2]

\* lines 222-245: the values as text nodes if a text template is set, and the return
AddText ==
    /\ pc = "text"
    /\ LET shape == shape_of(call.z)
           top == get_option(HeatmapStore, "point meta max")
           bottom == get_option(HeatmapStore, "point meta min")
       IN  IF ~call.texttemplate
           THEN HeatmapStep("return", Started(HeatmapStore), "done") /\ UNCHANGED call
           ELSE IF text_index_error(shape) \/ top.t # "num" \/ bottom.t # "num"
           THEN HeatmapRaise("text") /\ UNCHANGED call
           ELSE /\ call' = [call EXCEPT !.annotations_strs =
                                [n \in 1..(shape[1] * shape[2]) |->
                                    LET i == (n - 1) \div shape[2]
                                        j == (n - 1) % shape[2]
                                        value == call.z.rows[j + 1][i + 1]
                                    IN  [i |-> i, j |-> j, value |-> value,
                                         color |-> IF 2 * value > top.v + bottom.v
                                                   THEN "white" ELSE "black"]]]
                /\ HeatmapStep("return", Started(HeatmapStore), "done")

NextHeatmap ==
    SetExplicit \/ SetDefaults \/ SetupView \/ Rasterize \/ SetTicks \/ RotateLabels
        \/ SetLimits \/ SetSize \/ AddText

SpecHeatmap == InitHeatmap /\ [][NextHeatmap]_vars

(***************************************************************************)
(* Annotation coordinates (_annotations.py).  A number is an exact         *)
(* fraction n/d; a coordinate is a number or an expression, the sequence   *)
(* of the operands and operators written into the markup.                  *)
(***************************************************************************)
MaxHalf == 2           \* annotation coordinates range over 0, 1/2, .., MaxHalf/2

Frac(n, d) == [t |-> "num", n |-> n, d |-> d]

\* float arithmetic, exact on the fractions of the model (denominators positive)
Abs(n) == IF n < 0 THEN -n ELSE n
RECURSIVE Gcd(_, _)
Gcd(a, b) == IF b = 0 THEN a ELSE Gcd(b, a % b)
Lowest(n, d) == LET g == Gcd(Abs(n), Abs(d)) IN Frac(n \div g, d \div g)
RAdd(a, b) == Lowest(a.n * b.d + b.n * a.d, a.d * b.d)
RSub(a, b) == Lowest(a.n * b.d - b.n * a.d, a.d * b.d)
RMul(a, b) == LET x == Lowest(a.n, b.d)
                  y == Lowest(b.n, a.d)
              IN  Lowest(x.n * y.n, x.d * y.d)
REq(a, b) == Lowest(a.n, a.d) = Lowest(b.n, b.d)
Key(name) == [t |-> "key", v |-> name]      \* \pgfkeysvalueof{/pgfplots/name}
Op(o) == [t |-> "op", v |-> o]
Expr(tokens) == [t |-> "expr", v |-> tokens]

\* the text "{c}" of a coordinate inside an f-string
text_of(c) == IF c.t = "expr" THEN c.v ELSE <<c>>

\* lines 40-41 with the last term added instead of subtracted
coord_text_min_added(name, val) ==
    Expr(<<Key(name \o "min"), Op("+"), val, Op("*"), Key(name \o "max"),
           Op("+"), val, Op("*"), Key(name \o "min")>>)

\* lines 40-41: min + val*max-val*min, the bounds named by their pgfplots keys
coord_text(name, val) ==
    Expr(<<Key(name \o "min"), Op("+"), val, Op("*"), Key(name \o "max"),
           Op("-"), val, Op("*"), Key(name \o "min")>>)

\* lines 36-44 with the coordinates relative as soon as one reference is "paper"
get_coordinates_either(x, y, x_ref, y_ref) ==
    IF x_ref = "paper" \/ y_ref = "paper"
    THEN [x |-> x, y |-> y, relative |-> TRUE]
    ELSE [x |-> x, y |-> y, relative |-> FALSE]

\* get_coordinates, lines 36-44
get_coordinates(x, y, x_ref, y_ref) ==
    IF x_ref = y_ref /\ y_ref = "paper"
    THEN [x |-> x, y |-> y, relative |-> TRUE]
    ELSE [x |-> IF x_ref = "paper" THEN coord_text("x", x) ELSE x,
          y |-> IF y_ref = "paper" THEN coord_text("y", y) ELSE y,
          relative |-> FALSE]

\* get_groupplots_coordinates, lines 75-87
get_groupplots_coordinates(x, y, x_ref, y_ref, groupplots_info) ==
    LET overall_height == groupplots_info.overall_height
        overall_width == groupplots_info.overall_width
        last_col == (groupplots_info.num_subplots - 1) % groupplots_info.cols
        x_offset == Frac((last_col * (groupplots_info.width + groupplots_info.margin_l
                                        + groupplots_info.margin_r)
                            + groupplots_info.margin_l) * 100,
                         groupplots_info.width)
        y_offset == groupplots_info.margin_b
    IN  [x |-> Expr(text_of(x) \o <<Op("*"), Frac(overall_width, 1), Op("-"), x_offset>>),
         y |-> Expr(text_of(y) \o <<Op("*"), Frac(overall_height, 1),
                                    Op("*"), Frac(overall_height, overall_width),
                                    Op("-"), Frac(y_offset * overall_height, overall_width)>>)]

\* lines 111-113: add_option("clip", "false") on every axis, in order
RECURSIVE add_clip(_, _, _, _)
add_clip(axs, p, opts, warns) ==
    IF p > Len(axs) THEN [options |-> opts, warnings |-> warns]
    ELSE LET o == axs[p].options
             r == add_option_result(opts[o], "clip", VStr("false"))
         IN  add_clip(axs, p + 1, [opts EXCEPT ![o] = r.dict], warns \o r.warned)

TextParams == 2             \* positional parameters of tex_add_text before options
TextArgs == 3               \* positional arguments of the call at line 134

\* str_from_annotation, lines 110-135.  The call of tex_add_text at line 134 passes
\* three positional arguments and options by keyword, so options is given twice: a
\* TypeError at the first annotation, after lines 111-133 have acted for it.
str_from_annotation(annotation_list, axs, opts, colors, groupplots_info) ==
    IF annotation_list = << >>
    THEN [options |-> opts, colors_set |-> colors, warnings |-> << >>,
          raised |-> FALSE, annotation_str |-> << >>]
    ELSE LET clipped == add_clip(axs, 1, opts, << >>)
             annotation == annotation_list[1]
             c == get_coordinates(annotation.x, annotation.y, annotation.xref,
                                  annotation.yref)
             moved == IF groupplots_info = VNone THEN c
                      ELSE get_groupplots_coordinates(c.x, c.y, annotation.xref,
                                                      annotation.yref, groupplots_info)
             said == IF groupplots_info # VNone /\ ~c.relative
                     THEN <<"Only annotations with xref and yref 'paper' are supported when using groupplots.">>
                     ELSE << >>
             colored == IF annotation.font_color = VNone THEN colors
                        ELSE colors \cup {SubSeq(convert_color(annotation.font_color.v), 1, 3)}
             node == [kind |-> "node", x |-> moved.x, y |-> moved.y,
                      relative |-> c.relative /\ groupplots_info = VNone,
                      axisless |-> groupplots_info # VNone]
         IN  IF TextArgs > TextParams
             THEN [options |-> clipped.options, colors_set |-> colored,
                   warnings |-> clipped.warnings \o said, raised |-> TRUE,
                   annotation_str |-> << >>]
             ELSE [options |-> clipped.options, colors_set |-> colored,
                   warnings |-> clipped.warnings \o said, raised |-> FALSE,
                   annotation_str |-> <<node>>]

GroupplotsInfos ==
    LET
        \* left, right and bottom margins in pixels
        GroupMargins == { <<0, 0, 0>>, <<20, 10, 30>> }
        \* panel width, overall width and overall height in pixels
        GroupSizes == { <<100, 400, 300>>, <<200, 600, 400>> }
    IN
    { [overall_height |-> s[3], overall_width |-> s[2], width |-> s[1],
       num_subplots |-> l.n_trace_groups, cols |-> l.n_x_domains,
       margin_l |-> m[1], margin_r |-> m[2], margin_b |-> m[3]] :
        l \in Layouts, s \in GroupSizes, m \in GroupMargins }

(***************************************************************************)
(* The coordinate specification: the coordinates of one annotation are     *)
(* resolved by get_coordinates and moved to the canvas by                  *)
(* get_groupplots_coordinates, as lines 119-123 of str_from_annotation do, *)
(* or by either function on its own.                                       *)
(***************************************************************************)
InitCoord ==
    LET
        CoordValues == { Frac(k, 2) : k \in 0..MaxHalf }
        YRefs == {"paper", "y"}
        \* the references of an annotation's coordinates
        XRefs == {"paper", "x", "x2"}
    IN
    /\ \E axis_options \in AxisOptionsInputs : AxesBuilt(axis_options, VNone, 1)
    /\ warnings = << >>
    /\ last = NoOp
    /\ RenderIdle
    /\ \E x \in CoordValues, y \in CoordValues, x_ref \in XRefs, y_ref \in YRefs,
          info \in GroupplotsInfos :
            call = [fn |-> "none", x |-> x, y |-> y, x_ref |-> x_ref, y_ref |-> y_ref,
                    groupplots_info |-> info]

GetCoordinates ==
    /\ call.fn = "none"
    /\ call' = [fn |-> "get_coordinates", x |-> call.x, y |-> call.y,
                x_ref |-> call.x_ref, y_ref |-> call.y_ref,
                groupplots_info |-> call.groupplots_info,
                store |-> options,
                result |-> get_coordinates(call.x, call.y, call.x_ref, call.y_ref)]
    /\ UNCHANGED <<storeVars, renderVars>>

GetGroupplotsCoordinates ==
    /\ call.fn \in {"none", "get_coordinates"}
    /\ LET x == IF call.fn = "none" THEN call.x ELSE call.result.x
           y == IF call.fn = "none" THEN call.y ELSE call.result.y
       IN  call' = [fn |-> "get_groupplots_coordinates", x |-> x, y |-> y,
                    x_ref |-> call.x_ref, y_ref |-> call.y_ref,
                    groupplots_info |-> call.groupplots_info,
                    store |-> options,
                    result |-> get_groupplots_coordinates(x, y, call.x_ref, call.y_ref,
                                                          call.groupplots_info)]
    /\ UNCHANGED <<storeVars, renderVars>>

\* str_from_annotation on no annotation or on the one annotation, without or with
\* the dimensions of a groupplot
StrFromAnnotation ==
    /\ call.fn = "none"
    /\ \E list \in { << >> } \cup
                    { <<[x |-> call.x, y |-> call.y, xref |-> call.x_ref,
                         yref |-> call.y_ref, text |-> AnnText(1), font_color |-> color]>> :
                        color \in {VNone, VStr(FontColor)} },
          info \in {VNone, call.groupplots_info} :
        LET r == str_from_annotation(list, axes, options, colors_set, info)
        IN  /\ call' = [fn |-> "str_from_annotation", x |-> call.x, y |-> call.y,
                        x_ref |-> call.x_ref, y_ref |-> call.y_ref,
                        groupplots_info |-> info, annotation_list |-> list,
                        store |-> options,
                        result |-> [raised |-> r.raised, annotation_str |-> r.annotation_str]]
            /\ options' = r.options
            /\ colors_set' = r.colors_set
            /\ warnings' = warnings \o r.warnings
    /\ UNCHANGED <<axes, last, fig, pc, annotations, stack_env, code, found>>

NextCoord == GetCoordinates \/ GetGroupplotsCoordinates \/ StrFromAnnotation

SpecCoord == InitCoord /\ [][NextCoord]_vars

(***************************************************************************)
(* draw_bar (_bar.py).                                                     *)
(***************************************************************************)
MaxTraces == 2         \* bar traces drawn on a panel
MaxBars == 2           \* bars of a trace

\* a number that is no whole number of the model, and the text f"{number}"
VFrac(f) == [t |-> "frac", v |-> f]
\* _utils.py, px_to_pt, on a float
px_to_pt_float(px) == RMul(px, Frac(3, 4))

\* the layout sizes in pixels of the figures with bars
BarHeight == 1200
\* a bar trace: its labels, the length of its y values, the colour of its marker
BarTraces(color) ==
    LET
        \* the labels of the bars, each piece one character
        BarLabels == { <<"A">>, <<"B">>, <<"a", "_", "1">> }
    IN
    { [x |-> xs, y_len |-> Len(xs) + k, marker_color |-> color] :
        xs \in UNION { [1..n -> BarLabels] : n \in 1..MaxBars }, k \in {0, 1} }

\* _save.py line 326: fig_info
fig_info_of(width, traces) ==
    LET RECURSIVE total(_)
        total(i) == IF i = 0 THEN 0 ELSE Len(traces[i].x) + total(i - 1)
    IN  [height |-> px_to_pt_float(Frac(BarHeight, 1)),
         width |-> px_to_pt_float(Frac(width, 1)),
         n_bars |-> total(Len(traces))]

\* the default value of the options parameter of draw_bar, line 319, the keys
\* through tex_text as at line 340
BarDefaultOptions ==
    LET none == VMap(Dict1("draw", VStr("none")))
    IN  << <<tex_text(<<"ymajorgrids">>), VNone>>,
           <<tex_text(<<"xtick style">>), none>>,
           <<tex_text(<<"ytick style">>), none>>,
           <<tex_text(<<"axis line style">>), none>>,
           <<tex_text(<<"major grid style">>), VMap(Dict1("color", VStr("white")))>>,
           <<tex_text(<<"axis background/.style">>), VMap(Dict1("fill", VStr("blue!10")))>> >>

\* lines 364-392: the style of the tick labels when neighbouring labels may overlap
bar_tick_options(bar, x_width, n_bars) ==
    LET
        RLess(a, b) == a.n * b.d < b.n * a.d
    IN
    LET room == RMul(Frac(2, 1), px_to_pt_float(x_width))
        overlap(text_pt) ==
            \E i \in 1..(Len(bar.x) - 1) :
                RLess(room, Frac((Len(bar.x[i]) + Len(bar.x[i + 1])) * text_pt, 1))
        small == RLess(px_to_pt_float(RMul(x_width, Frac(n_bars, 1))), Frac(300, 1))
        text_pt == IF small THEN 6 ELSE 10
        rotated == overlap(text_pt)
        keys == (IF small THEN {"font"} ELSE {})
                    \cup (IF rotated THEN {"rotate", "anchor", "xshift", "yshift"} ELSE {})
        style == [k \in keys |->
                    CASE k = "font" -> VStr("\\tiny")
                      [] k = "rotate" -> VStr("-30")
                      [] k = "anchor" -> VStr("west")
                      [] k = "xshift" -> VStr("-1mm")
                      [] OTHER -> VStr("-2mm")]
        longest == CHOOSE n \in { Len(bar.x[i]) : i \in DOMAIN bar.x } :
                        \A i \in DOMAIN bar.x : Len(bar.x[i]) <= n
        rotated_text_height == RMul(Frac(longest * text_pt, 1), Frac(1, 2))
    IN  IF ~overlap(10) THEN << >>
        ELSE (IF rotated
              THEN << <<"x label style",
                        VMap(Dict1("yshift",
                                   VFrac(RSub(Frac(text_pt, 1), rotated_text_height))))>> >>
              ELSE << >>)
             \o << <<"x tick label style", VMap(style)>> >>

\* lines 424-425: update_option("symbolic x coords", [tex_text(xv)], ...) for the
\* labels from the i-th on
RECURSIVE symbolic_x_coords(_, _, _)
symbolic_x_coords(r, x, i) ==
    IF i > Len(x) THEN r
    ELSE symbolic_x_coords(
            update_options(r, << <<"symbolic x coords", VList(<<VStr(tex_text(x[i]))>>),
                                   "x if y in x else x + y">> >>),
            x, i + 1)

\* draw_bar_indiv: the colour of the marker goes into the set; without one, line 530
\* reads a local that was never assigned (UnboundLocalError)
draw_bar_indiv(bar, colors) ==
    IF bar.marker_color = VNone THEN [colors_set |-> colors, raised |-> TRUE]
    ELSE [colors_set |-> colors \cup {SubSeq(convert_color(bar.marker_color.v), 1, 3)},
          raised |-> FALSE]

\* draw_bar, lines 338-438, on the store d of the panel
draw_bar(bar, d, fig_info, colors) ==
    LET
        NumStr(f) == [t |-> "numstr", v |-> f]
        RDiv(a, b) == RMul(a, Frac(b.d, b.n))
    IN
    LET n_bars == fig_info.n_bars
        x_width == RDiv(fig_info.width, Frac(n_bars, 1))
        bar_width == RMul(x_width, Frac(3, 4))
        sized == add_options(Started(d),
                    BarDefaultOptions
                    \o << <<"y", NumStr(px_to_pt_float(fig_info.height))>>,
                          <<"x", NumStr(px_to_pt_float(x_width))>>,
                          <<"bar width", NumStr(px_to_pt_float(bar_width))>> >>
                    \o (IF n_bars > 1
                        THEN << <<"enlarge x limits",
                                  VFrac(RDiv(RSub(x_width, RDiv(bar_width, Frac(2, 1))),
                                             RMul(x_width, Frac(n_bars - 1, 1))))>> >>
                        ELSE << >>)
                    \o bar_tick_options(bar, x_width, n_bars))
        indiv == draw_bar_indiv(bar, colors)
    IN  IF Len(bar.x) # bar.y_len
        THEN [dict |-> sized.dict,
              warned |-> sized.warned \o <<"Bar chart x and y values have different lengths">>,
              colors_set |-> indiv.colors_set, raised |-> indiv.raised]
        ELSE LET r == symbolic_x_coords(sized, bar.x, 1)
             IN  [dict |-> r.dict, warned |-> r.warned,
                  colors_set |-> indiv.colors_set, raised |-> indiv.raised]

(***************************************************************************)
(* The bar specification: the bar traces of one panel are drawn in order,  *)
(* as lines 309-331 of get_tikz_code do; an exception ends the render.     *)
(***************************************************************************)
BarPanel == 1

InitBar ==
    LET
        \* marker.color of the traces of a figure: None or a colour
        BarMarkerColors == {VNone, VStr("636EFA")}
        BarWidths == {1200, 40}
    IN
    /\ AxesBuilt([kind |-> "none"], VNone, BarPanel)
    /\ warnings = << >>
    /\ last = NoOp
    /\ RenderIdle
    /\ \E color \in BarMarkerColors, width \in BarWidths :
        \E traces \in UNION { [1..n -> BarTraces(color)] : n \in 1..MaxTraces } :
            call = [fn |-> "draw_bar", traces |-> traces, width |-> width,
                    drawn |-> 0, raised |-> FALSE]

DrawBar ==
    /\ call.fn = "draw_bar"
    /\ ~call.raised
    /\ call.drawn < Len(call.traces)
    /\ LET o == axes[BarPanel].options
           r == draw_bar(call.traces[call.drawn + 1], options[o],
                         fig_info_of(call.width, call.traces), colors_set)
       IN  /\ options' = [options EXCEPT ![o] = r.dict]
           /\ warnings' = warnings \o r.warned
           /\ colors_set' = r.colors_set
           /\ call' = [call EXCEPT !.drawn = @ + 1, !.raised = r.raised]
    /\ UNCHANGED <<axes, last, fig, pc, annotations, stack_env, code, found>>

NextBar == DrawBar

SpecBar == InitBar /\ [][NextBar]_vars

(***************************************************************************)
(* The validation specification: check_grid is called on a grid of any     *)
(* shape, ragged or not, with any cells.                                   *)
(***************************************************************************)
GridInputs ==
    LET
        GridCells ==
            UNION { { [i \in 1..n |-> Annotation(f[i][1], f[i][2], AnnText(i))] :
                        f \in [1..n -> Positions] } : n \in 0..MaxCell }
        GridRows == UNION { [1..n -> GridCells] : n \in 0..MaxGridCols }
    IN
    UNION { [1..n -> GridRows] : n \in 0..MaxGridRows }

InitCheck ==
    /\ StoreIdle
    /\ RenderIdle
    /\ \E grid \in GridInputs, n_x_domains \in 1..MaxGridCols, n_y_domains \in 1..MaxGridRows :
        \E n_figures \in 1..(n_x_domains * n_y_domains) :
            call = [fn |-> "none", grid |-> grid, n_x_domains |-> n_x_domains,
                    n_y_domains |-> n_y_domains, n_figures |-> n_figures]

CheckGrid ==
    /\ call.fn = "none"
    /\ call' = [fn |-> "check_grid", grid |-> call.grid, n_x_domains |-> call.n_x_domains,
                n_y_domains |-> call.n_y_domains, n_figures |-> call.n_figures,
                result |-> check_grid(call.grid, call.n_x_domains, call.n_y_domains,
                                      call.n_figures)]
    /\ UNCHANGED <<storeVars, renderVars>>

NextCheck == CheckGrid

SpecCheck == InitCheck /\ [][NextCheck]_vars

(***************************************************************************)
(* Claims about the option store.                                          *)
(***************************************************************************)
\* the store the last operation acted on, before and after it
LastBefore == last.before[axes[last.axis].options]
LastAfter == options[axes[last.axis].options]
\* the warnings the last operation emitted
LastWarned == SubSeq(warnings, Len(last.warnings_before) + 1, Len(warnings))
\* the last operation left every key but its own as it was
LastOtherKeysKept ==
    /\ (DOMAIN LastAfter) \ {last.option} = (DOMAIN LastBefore) \ {last.option}
    /\ \A k \in (DOMAIN LastBefore) \ {last.option} : LastAfter[k] = LastBefore[k]

\* C1: update_option(option, value, update_fn) on an absent option stores value
\* without calling update_fn; on a present option it stores update_fn(old, value);
\* when update_fn raises it stores value and emits a warning.  No exception
\* escapes and no other key of the store changes.
C1_UpdateOption ==
    last.op = "update_option" =>
        /\ ~last.raised
        /\ SubSeq(warnings, 1, Len(last.warnings_before)) = last.warnings_before
        /\ LastOtherKeysKept
        /\ last.option \in DOMAIN LastAfter
        /\ IF last.option \notin DOMAIN LastBefore
           THEN LastAfter[last.option] = last.value /\ ~last.called /\ LastWarned = << >>
           ELSE LET r == ApplyFn(last.update_fn, LastBefore[last.option], last.value)
                IN  IF r.raised
                    THEN LastAfter[last.option] = last.value /\ Len(LastWarned) = 1
                    ELSE LastAfter[last.option] = r.val /\ LastWarned = << >>

\* update_option has fallen back to overwriting after update_fn raised
C1_Witness ==
    /\ last.op = "update_option"
    /\ last.option \in DOMAIN LastBefore
    /\ ApplyFn(last.update_fn, LastBefore[last.option], last.value).raised
    /\ LastAfter[last.option] = last.value
    /\ LastAfter[last.option] # LastBefore[last.option]

\* C2: add_option(option, value) always leaves options[option] = value and every
\* other key unchanged, and warns exactly when the option was present with a
\* different value.
C2_AddOption ==
    last.op = "add_option" =>
        /\ last.option \in DOMAIN LastAfter
        /\ LastAfter[last.option] = last.value
        /\ LastOtherKeysKept
        /\ SubSeq(warnings, 1, Len(last.warnings_before)) = last.warnings_before
        /\ IF last.option \in DOMAIN LastBefore /\ LastBefore[last.option] # last.value
           THEN LastWarned = <<"already exists">>
           ELSE LastWarned = << >>

\* add_option has overwritten a different value and warned
C2_Witness ==
    /\ last.op = "add_option"
    /\ last.option \in DOMAIN LastBefore
    /\ LastBefore[last.option] # last.value
    /\ LastWarned = <<"already exists">>

(***************************************************************************)
(* Claims about the title search.                                          *)
(***************************************************************************)
Searched == call.fn = "find_subgrids"
CallXs == { call.coords[i].x : i \in DOMAIN call.coords }
CallYs == { call.coords[i].y : i \in DOMAIN call.coords }
\* the points of the call at (x, y), in list order
CallAt(x, y) ==
    LET at(coord) == coord.x = x /\ coord.y = y IN SelectSeq(call.coords, at)
\* a yielded grid has the requested shape, one y per row and one x per column
WellFormed(grid) ==
    /\ Len(grid) = call.n_y_domains
    /\ \A r \in DOMAIN grid :
        /\ Len(grid[r]) = call.n_x_domains
        /\ \A p, q \in CellPoints(grid[r]) : p.y = q.y
    /\ \A c \in 1..call.n_x_domains :
        \A r1, r2 \in DOMAIN grid :
            \A p \in Range(grid[r1][c]), q \in Range(grid[r2][c]) : p.x = q.x
\* the points hold a full lattice on the columns X and the rows Y
Lattice(X, Y) ==
    /\ Cardinality(X) = call.n_x_domains
    /\ Cardinality(Y) = call.n_y_domains
    /\ \A x \in X, y \in Y : CallAt(x, y) # << >>
\* the distinct coordinates exceed the requested shape
Excess == Cardinality(CallXs) > call.n_x_domains \/ Cardinality(CallYs) > call.n_y_domains
\* the distinct coordinates are exactly as many as the requested shape
ExactFit == Cardinality(CallXs) = call.n_x_domains /\ Cardinality(CallYs) = call.n_y_domains

\* C4: consuming find_subgrids to its end never raises, whatever the points and
\* the requested shape; a candidate that fails validation is only left out.
C4_SearchNeverRaises == Searched => ~call.result.raised

\* C5: when the points hold a full rows x cols lattice and stray points at other
\* coordinates, find_subgrids yields at least one grid, and every yielded grid is
\* well formed and holds the points of a lattice in its cells.
C5_GeneralCaseYields ==
    (Searched /\ Excess /\ \E X \in SUBSET CallXs, Y \in SUBSET CallYs : Lattice(X, Y)) =>
        /\ ~call.result.raised
        /\ Len(call.result.yields) >= 1
        /\ \A i \in DOMAIN call.result.yields :
            LET y == call.result.yields[i]
            IN  /\ WellFormed(y.grid)
                /\ Lattice(Range(y.x_coords), Range(y.y_coords))
                /\ \A r \in DOMAIN y.grid : \A c \in DOMAIN y.grid[r] :
                        y.grid[r][c] = CallAt(y.x_coords[c], y.y_coords[r])

\* the candidate of the exact-fit case as the claim describes it: cell (r, c)
\* holds the points whose y is the r-th largest and whose x is the c-th smallest
RankDesc(y) == 1 + Cardinality({ v \in CallYs : v > y })
RankAsc(x) == 1 + Cardinality({ v \in CallXs : v < x })
ExactCandidate ==
    [r \in 1..call.n_y_domains |->
        [c \in 1..call.n_x_domains |->
            LET at(coord) == RankDesc(coord.y) = r /\ RankAsc(coord.x) = c
            IN  SelectSeq(call.coords, at)]]

\* C6: in the exact-fit case the one candidate has in cell (r, c) the points with
\* the r-th largest y and the c-th smallest x, every point lies in exactly one
\* cell, and the sequence is that candidate if check_grid accepts it and empty
\* otherwise.
C6_ExactFit ==
    (Searched /\ ExactFit) =>
        LET built == exact_grid(call.coords, x_coords_of(call.coords), y_coords_of(call.coords))
            accepted == check_grid(ExactCandidate, call.n_x_domains, call.n_y_domains,
                                   Min(call.n_x_domains * call.n_y_domains, call.n_entries))
        IN  /\ built = ExactCandidate
            /\ \A i \in DOMAIN call.coords :
                 Cardinality({ rc \in (1..call.n_y_domains) \X (1..call.n_x_domains) :
                                 call.coords[i] \in Range(built[rc[1]][rc[2]]) }) = 1
            /\ ~call.result.raised
            /\ Len(call.result.yields) <= 1
            /\ accepted.valid <=> Len(call.result.yields) = 1
            /\ \A i \in DOMAIN call.result.yields :
                 /\ call.result.yields[i].grid = ExactCandidate
                 /\ call.result.yields[i].warnings = accepted.warnings

\* an exact fit on several rows and columns has yielded its candidate
C6_Witness ==
    /\ Searched
    /\ ExactFit
    /\ call.n_y_domains >= 2
    /\ call.n_x_domains >= 2
    /\ Len(call.result.yields) = 1
    /\ \E r \in 1..call.n_y_domains, c \in 1..call.n_x_domains :
            Len(call.result.yields[1].grid[r][c]) >= 1

(***************************************************************************)
(* Claims about check_grid.                                                *)
(***************************************************************************)
Checked == call.fn = "check_grid"
\* the points of row r, and of column c, of the checked grid
RowPoints(r) == CellPoints(call.grid[r])
ColPoints(c) ==
    UNION { Range(call.grid[r][c]) : r \in { q \in DOMAIN call.grid : c <= Len(call.grid[q]) } }
\* the four defects the claim names
Malformed ==
    \/ Len(call.grid) # call.n_y_domains
    \/ \E r \in DOMAIN call.grid : Len(call.grid[r]) # call.n_x_domains
    \/ \E r \in DOMAIN call.grid : \E p, q \in RowPoints(r) : p.y # q.y
    \/ \E c \in 1..MaxGridCols : \E p, q \in ColPoints(c) : p.x # q.x
SoftWarnings ==
    { "Multiple titles found for a single subplot.", "No titles found for a subplot.",
      "Titles found for nonexistent subplots." }

C8_StrayOnlyIfPopulated ==
    (Checked /\ call.result.valid
        /\ "Titles found for nonexistent subplots." \in Range(call.result.warnings)) =>
        \E r \in DOMAIN call.grid : \E c \in DOMAIN call.grid[r] :
            /\ (r - 1) * call.n_x_domains + (c - 1) >= call.n_figures
            /\ Len(call.grid[r][c]) >= 1
(***************************************************************************)
(* Claims about get_tikz_code.                                             *)
(***************************************************************************)
\* C3: rendering never fails: for every figure the render reaches its end and
\* returns markup, whatever the figure holds.
C3_RenderReturns == pc # "raised"

\* title inference has run
TitlesInferred == found.attempt # "none"
FigXs == { fig.annotations[i].x : i \in DOMAIN fig.annotations }
FigYs == { fig.annotations[i].y : i \in DOMAIN fig.annotations }
\* the annotations of the figure at (x, y), in list order
FigAt(x, y) ==
    LET at(coord) == coord.x = x /\ coord.y = y IN SelectSeq(fig.annotations, at)
\* the grid on the columns X and the rows Y, greatest y first, smallest x first
GridOn(X, Y) == exact_grid(fig.annotations, Sorted(X), Reversed(Sorted(Y)))
\* the choices of cols columns and rows rows among the coordinates of the figure
FigSelections(rows) ==
    { XY \in (SUBSET FigXs) \X (SUBSET FigYs) :
        Cardinality(XY[1]) = fig.n_x_domains /\ Cardinality(XY[2]) = rows }
\* a full grid exists: some choice has a title in every cell
FullGridExists ==
    \E XY \in FigSelections(fig.n_y_domains) :
        \A x \in XY[1], y \in XY[2] : FigAt(x, y) # << >>
\* the full grids that validation accepts
FullCandidates ==
    { g \in { GridOn(XY[1], XY[2]) : XY \in FigSelections(fig.n_y_domains) } :
        check_grid(g, fig.n_x_domains, fig.n_y_domains, fig.n_trace_groups).valid }
FullWarnings(g) ==
    check_grid(g, fig.n_x_domains, fig.n_y_domains, fig.n_trace_groups).warnings
\* the y levels that hold a row of cols titles
RowLevels ==
    { y \in FigYs : \E XY \in FigSelections(1) :
                        XY[2] = {y} /\ \A x \in XY[1] : FigAt(x, y) # << >> }
\* the title option of panel p
TitleOf(p) ==
    LET d == options[axes[p].options]
    IN  IF "title" \in DOMAIN d THEN d["title"] ELSE VNone

\* C9: title inference never fails; whenever a full rows x cols grid exists a
\* full grid is used and no accepted full grid has fewer warnings than it; when
\* the coordinates are too few for a full grid and some y levels hold a row of
\* cols titles, the row with the greatest y is used and its titles are set on
\* the first-row panels.
C9_TitleRanking ==
    TitlesInferred =>
        /\ found.attempt # "raised"
        /\ FullGridExists =>
            /\ found.attempt = "full"
            /\ found.grid \in FullCandidates
            /\ \A g \in FullCandidates : Len(found.warnings) <= Len(FullWarnings(g))
        /\ (FigSelections(fig.n_y_domains) = {} /\ RowLevels # {}) =>
            /\ found.attempt = "row"
            /\ \A coord \in CellPoints(found.grid[1]) : \A y \in RowLevels : coord.y >= y
            /\ pc = "panels" =>
                \A c \in 1..fig.n_x_domains :
                    TitleOf(c) = title_value(found.grid[1][c], LayoutOf(fig))

\* the figure has rows x cols panels and exactly one title at each lattice point
OneTitlePerPanel ==
    /\ groupplots
    /\ fig.n_trace_groups = fig.n_x_domains * fig.n_y_domains
    /\ Len(fig.annotations) = fig.n_trace_groups
    /\ Cardinality(FigXs) = fig.n_x_domains
    /\ Cardinality(FigYs) = fig.n_y_domains
    /\ \A x \in FigXs, y \in FigYs : Len(FigAt(x, y)) = 1
\* the title whose y is the r-th largest and whose x is the c-th smallest
TitleAt(r, c) ==
    CHOOSE ann \in Range(fig.annotations) :
        /\ 1 + Cardinality({ v \in FigYs : v > ann.y }) = r
        /\ 1 + Cardinality({ v \in FigXs : v < ann.x }) = c

C11_LastOneWins ==
    (pc = "panels" /\ found.attempt = "full") =>
        \A i \in 0..(fig.n_trace_groups - 1) :
            LET rc == <<(i \div fig.n_x_domains) + 1, (i % fig.n_x_domains) + 1>>
                cell == found.grid[rc[1]][rc[2]]
            IN  Len(cell) > 1 =>
                    TitleOf(i + 1) =
                        VMap(Dict1(latex_text_size_fmt(
                                       cell[Len(cell)].text,
                                       IF fig.title_font_size = 0 THEN DefaultTitleFontSize
                                       ELSE fig.title_font_size),
                                   VNone))

(***************************************************************************)
(* The search on the four corners.                                         *)
(***************************************************************************)
Corners == { <<0, 0>>, <<0, 1>>, <<1, 0>>, <<1, 1>> }
CallPoints == { <<call.coords[i].x, call.coords[i].y>> : i \in DOMAIN call.coords }
\* a 2 x 2 grid of 4 is asked for among distinct corner points
CornerSearch ==
    /\ Searched
    /\ call.n_x_domains = 2
    /\ call.n_y_domains = 2
    /\ call.n_entries = 4
    /\ CallPoints \subseteq Corners
    /\ Len(call.coords) = Cardinality(CallPoints)

\* C12: for the four corner points and a requested 2 x 2 grid of 4, find_subgrids
\* yields exactly one grid and its warning list is empty; with any one corner
\* removed it still yields a grid, without raising, and the warning list of what
\* it yields is exactly the one warning about a missing title.
C12_CornerSoundness ==
    CornerSearch =>
        /\ Cardinality(CallPoints) = 4 =>
            /\ ~call.result.raised
            /\ Len(call.result.yields) = 1
            /\ call.result.yields[1].warnings = << >>
        /\ Cardinality(CallPoints) = 3 =>
            /\ ~call.result.raised
            /\ Len(call.result.yields) >= 1
            /\ \A i \in DOMAIN call.result.yields :
                call.result.yields[i].warnings = <<"No titles found for a subplot.">>

\* three of the four corners have been searched and a grid has been yielded
C12_Witness ==
    /\ CornerSearch
    /\ Cardinality(CallPoints) = 3
    /\ <<1, 1>> \notin CallPoints
    /\ Len(call.result.yields) = 1

(***************************************************************************)
(* Claims about the stores of several panels, lists and merges.            *)
(***************************************************************************)
\* C13: each panel owns its store: an add_option, update_option, append_option
\* or remove_option on one panel changes neither the options of another panel
\* nor the axis_options argument of the caller, whatever that argument was.
C13_PanelOwnsStore ==
    last.op # "none" =>
        /\ \A q \in DOMAIN axes :
            q # last.axis => OptionsOf(q) = last.before[axes[q].options]
        /\ options[ArgObj] = last.before[ArgObj]

\* C14: when a key holds a map, an add_option of a map to that key merges: every
\* sub-key of the old map is still a sub-key of the stored map.
C14_MapWritesMerge ==
    (/\ last.op = "add_option"
     /\ last.option \in DOMAIN LastBefore
     /\ LastBefore[last.option].t = "map"
     /\ last.value.t = "map") =>
        /\ LastAfter[last.option].t = "map"
        /\ DOMAIN LastBefore[last.option].v \subseteq DOMAIN LastAfter[last.option].v

\* the elements of a ","-delimited string, stripped of blanks
RECURSIVE elements_of(_, _)
elements_of(chars, cur) ==
    IF chars = << >> THEN <<VStr(cur)>>
    ELSE IF Head(chars) = "," THEN <<VStr(cur)>> \o elements_of(Tail(chars), "")
    ELSE IF Head(chars) = " " THEN elements_of(Tail(chars), cur)
    ELSE elements_of(Tail(chars), cur \o Head(chars))

\* the list append_option is to leave, by the value the key held
AppendExpected ==
    IF last.option \notin DOMAIN LastBefore THEN <<last.value>>
    ELSE LET old == LastBefore[last.option]
         IN  IF old.t = "list" THEN Append(old.v, last.value)
             ELSE IF old.t = "str" /\ has_comma(old.v)
             THEN Append(elements_of(Chars(old.v), ""), last.value)
             ELSE <<old, last.value>>

\* C15: append_option never raises and leaves a list that ends with the value:
\* [value] when the key was absent, the old list with the value appended, the
\* elements of an old ","-delimited string with the value appended, and
\* [old, value] for any other old value.
C15_AppendOption ==
    last.op = "append_option" =>
        /\ ~last.raised
        /\ last.option \in DOMAIN LastAfter
        /\ LastAfter[last.option] = VList(AppendExpected)

KeepFns == {"a if a is not None else b", "b | a"}

\* C16: update_option with a merge function that keeps the existing value
\* (a if a is not None else b, or the map form new | old) is idempotent: after
\* it has been applied, applying it again with the same key and value leaves
\* the store as it is.
C16_MergeIdempotent ==
    (last.op = "update_option" /\ last.update_fn \in KeepFns) =>
        update_option_result(LastAfter, last.option, last.value, last.update_fn).dict
            = LastAfter

\* a map of defaults has been merged into a map that lacked its sub-key
C16_Witness ==
    /\ last.op = "update_option"
    /\ last.update_fn = "b | a"
    /\ last.option \in DOMAIN LastBefore
    /\ LastBefore[last.option].t = "map"
    /\ last.value.t = "map"
    /\ LastAfter[last.option] # LastBefore[last.option]
    /\ LastAfter[last.option] # last.value

(***************************************************************************)
(* Claims about draw_heatmap.                                              *)
(***************************************************************************)
HeatmapCalled == call.fn = "draw_heatmap"
ZRows == IF Len(shape_of(call.z)) = 2 THEN shape_of(call.z)[1] ELSE 0
ZCols == IF Len(shape_of(call.z)) = 2 THEN shape_of(call.z)[2] ELSE 0
\* the table of a matrix with at least one row and one column has been written
Rasterized ==
    /\ HeatmapCalled
    /\ ZRows >= 1
    /\ ZCols >= 1
    /\ pc \in {"ticks", "rotate", "limits", "size", "text", "done", "raised"}

C18_MeshCoordinates ==
    (HeatmapCalled /\ call.data_str # << >>) =>
        \A j \in DOMAIN call.data_str :
            \A i \in DOMAIN call.data_str[j] :
                LET e == call.data_str[j][i]
                    k == (i - 1) \div 2
                    l == (j - 1) \div 2
                IN  /\ e.x = (i \div 2) * EpsInv - ((i - 1) % 2)
                    /\ e.y = (j \div 2) * EpsInv - ((j - 1) % 2)
                    /\ i > 1 => call.data_str[j][i - 1].x < e.x
                    /\ j > 1 => call.data_str[j - 1][i].y < e.y
                    /\ (i - 1) % 2 = 0 =>
                        /\ e.x = k * EpsInv
                        /\ call.data_str[j][i + 1].x = (k + 1) * EpsInv - 1
                        /\ i > 1 => e.x - call.data_str[j][i - 1].x = 1
                    /\ (j - 1) % 2 = 0 =>
                        /\ e.y = l * EpsInv
                        /\ call.data_str[j + 1][i].y = (l + 1) * EpsInv - 1
                        /\ j > 1 => e.y - call.data_str[j - 1][i].y = 1

\* the table of a matrix with two columns and two rows has been written: the
\* second source cell starts eps after the end of the first
C18_Witness ==
    /\ Rasterized
    /\ pc = "done"
    /\ ZRows = 2
    /\ ZCols = 2
    /\ call.data_str[1][3].x - call.data_str[1][2].x = 1
    /\ call.data_str[3][1].y - call.data_str[2][1].y = 1

\* the matrix has no data: z is None, has no rows, or has rows without columns
Degenerate == HeatmapCalled /\ (call.z.kind = "none" \/ ZRows = 0 \/ ZCols = 0)

\* C19: for a matrix without data draw_heatmap does not raise, and it returns a
\* table without entries.
C19_DegenerateHeatmap ==
    Degenerate =>
        /\ pc # "raised"
        /\ pc = "done" => \A j \in DOMAIN call.data_str : call.data_str[j] = << >>

\* C20: after set_opts(options, override=True) every key of the explicit options
\* holds the explicit value (for two maps: every explicit sub-key holds the
\* explicit value); the pass of the defaults and the size computation leave every
\* key that held a value other than None as it was (for a map: its sub-keys).
C20_SetupPrecedence ==
    /\ (HeatmapCalled /\ last.op = "set_opts explicit") =>
        \A n \in DOMAIN call.options :
            LET key == call.options[n][1]
                value == call.options[n][2]
                before == get_option(LastBefore, key)
                after == get_option(LastAfter, key)
            IN  IF value.t = "map" /\ before.t = "map"
                THEN /\ after.t = "map"
                     /\ \A sub \in DOMAIN value.v :
                            sub \in DOMAIN after.v /\ after.v[sub] = value.v[sub]
                ELSE after = value
    /\ (HeatmapCalled /\ last.op \in {"set_opts defaults", "size"}) =>
        \A key \in DOMAIN LastBefore :
            LET before == LastBefore[key]
                after == get_option(LastAfter, key)
            IN  before # VNone =>
                    \/ after = before
                    \/ /\ before.t = "map"
                       /\ after.t = "map"
                       /\ \A sub \in DOMAIN before.v :
                            sub \in DOMAIN after.v /\ after.v[sub] = before.v[sub]

(***************************************************************************)
(* Claims about the annotation coordinates.                                *)
(***************************************************************************)

\* the axis bounds an expression is evaluated under: <<min, max>> of either axis
AxisBounds == { <<0, 10>>, <<-2, 3>>, <<4, 4>> }
BoundsOf(bx, by) ==
    [k \in {"xmin", "xmax", "ymin", "ymax"} |->
        CASE k = "xmin" -> Frac(bx[1], 1) [] k = "xmax" -> Frac(bx[2], 1)
          [] k = "ymin" -> Frac(by[1], 1) [] OTHER -> Frac(by[2], 1)]
BoundEnvs == { BoundsOf(bx, by) : bx \in AxisBounds, by \in AxisBounds }

Operand(tok, env) == IF tok.t = "key" THEN env[tok.v] ELSE tok

\* the value of operands joined by +, - and *: products first, then the sum from
\* the left
RECURSIVE ValueFrom(_, _, _, _, _)
ValueFrom(tokens, i, sum, prod, env) ==
    IF i > Len(tokens) THEN RAdd(sum, prod)
    ELSE LET operand == Operand(tokens[i + 1], env)
         IN  CASE tokens[i].v = "*" ->
                    ValueFrom(tokens, i + 2, sum, RMul(prod, operand), env)
               [] tokens[i].v = "+" ->
                    ValueFrom(tokens, i + 2, RAdd(sum, prod), operand, env)
               [] OTHER ->
                    ValueFrom(tokens, i + 2, RAdd(sum, prod),
                              RSub(Frac(0, 1), operand), env)

\* the value of a coordinate under the axis bounds env
Value(c, env) ==
    LET tokens == text_of(c)
    IN  ValueFrom(tokens, 2, Frac(0, 1), Operand(tokens[1], env), env)

Resolved == call.fn = "get_coordinates"
Mixed == (call.x_ref = "paper") # (call.y_ref = "paper")

\* C21: with exactly one reference "paper", get_coordinates writes that component v
\* as an expression over the axis bounds worth min + v*(max - min) under every bounds,
\* returns the other component unchanged and relative = False, and leaves the option
\* store as it was.
C21_MixedFrame ==
    (Resolved /\ Mixed) =>
        LET r == call.result
            paper_x == call.x_ref = "paper"
            v == IF paper_x THEN call.x ELSE call.y
            written == IF paper_x THEN r.x ELSE r.y
            lo == IF paper_x THEN "xmin" ELSE "ymin"
            hi == IF paper_x THEN "xmax" ELSE "ymax"
        IN  /\ r.relative = FALSE
            /\ IF paper_x THEN r.y = call.y ELSE r.x = call.x
            /\ written.t = "expr"
            /\ \A env \in BoundEnvs :
                    REq(Value(written, env),
                        RAdd(env[lo], RMul(v, RSub(env[hi], env[lo]))))
            /\ options = call.store

\* the case v = 1/2 of the x component, worth 5 between the bounds 0 and 10
C21_Witness ==
    /\ Resolved
    /\ call.x_ref = "paper" /\ call.y_ref = "y"
    /\ call.x = Frac(1, 2)
    /\ REq(Value(call.result.x, BoundsOf(<<0, 10>>, <<0, 10>>)), Frac(5, 1))
    /\ call.result.y = call.y

\* C22: get_coordinates returns relative = True exactly when both references are
\* "paper", and then returns the pair (x, y) it was given.
C22_FullyRelative ==
    Resolved =>
        /\ call.result.relative = (call.x_ref = "paper" /\ call.y_ref = "paper")
        /\ call.result.relative => (call.result.x = call.x /\ call.result.y = call.y)

C22_Witness ==
    /\ Resolved
    /\ call.x_ref = "paper" /\ call.y_ref = "paper"
    /\ call.result = [x |-> Frac(1, 2), y |-> Frac(2, 2), relative |-> TRUE]

Moved == call.fn = "get_groupplots_coordinates"

\* the offset of the last panel's axis from the left edge of the canvas, in the unit
\* of overall_width
OffsetX(info) ==
    ((info.num_subplots - 1) % info.cols) * (info.width + info.margin_l + info.margin_r)
        + info.margin_l

\* the y expression is worth (y*overall_height - margin_b) * overall_height/overall_width
MovedYValue ==
    LET info == call.groupplots_info
    IN  REq(Value(call.result.y, BoundsOf(<<0, 10>>, <<0, 10>>)),
            RMul(RSub(RMul(call.y, Frac(info.overall_height, 1)), Frac(info.margin_b, 1)),
                 Frac(info.overall_height, info.overall_width)))

\* C24: for relative coordinates get_groupplots_coordinates returns an x expression
\* worth x*overall_width - offsetX, the offset in the unit of overall_width, and a y
\* expression worth (y*overall_height - margin_b) * (overall_height/overall_width).
C24_CanvasCoordinates ==
    (Moved /\ call.x.t = "num" /\ call.y.t = "num") =>
        LET info == call.groupplots_info
        IN  /\ REq(Value(call.result.x, BoundsOf(<<0, 10>>, <<0, 10>>)),
                   RSub(RMul(call.x, Frac(info.overall_width, 1)), Frac(OffsetX(info), 1)))
            /\ MovedYValue

(***************************************************************************)
(* Claims about the emission of get_tikz_code.                             *)
(***************************************************************************)
\* line 506 has been reached: str_from_annotation has been called
AnnotationsDrawn == call.fn = "str_from_annotation"

\* the annotation is in the markup, in the frame of the axis
InAxisFrame(annotation) ==
    \E k \in DOMAIN code :
        /\ code[k].kind = "node"
        /\ "annotation" \in DOMAIN code[k]
        /\ code[k].annotation = annotation
        /\ code[k].frame \in {"rel axis cs", "axis cs"}

\* C23: in a render with one panel str_from_annotation is called without the
\* dimensions of a groupplot (the call binds its arguments and groupplots_info is
\* None), and every annotation is emitted in the frame of the axis, relative or
\* absolute, never moved to the canvas.
C23_SinglePanelFrame ==
    (AnnotationsDrawn /\ ~groupplots) =>
        /\ ~call.raised
        /\ \A i \in DOMAIN annotations : InAxisFrame(annotations[i])

\* get_tikz_code is over: it has returned its markup or raised
RenderOver == pc \in {"done", "raised"}

\* the markup get_tikz_code returns; a render that raises returns none
Returned == IF pc = "done" THEN code ELSE << >>

Definitions(markup, name) ==
    { k \in DOMAIN markup : markup[k].kind = "definecolor" /\ markup[k].name = name }
PanelPieces(markup) ==
    { k \in DOMAIN markup :
        \/ markup[k].kind = "nextgroupplot"
        \/ markup[k].kind = "begin" /\ markup[k].name = "axis" }

\* C25: every colour with a colour space that the render has put into the shared set
\* is defined exactly once in the markup of the render, before the first panel.
C25_ColorsDefinedOnce ==
    RenderOver =>
        \A c \in colors_set :
            c[2] # "none" =>
                /\ Cardinality(Definitions(Returned, c[1])) = 1
                /\ \A k \in Definitions(Returned, c[1]), p \in PanelPieces(Returned) : k < p

\* C26: once the option strings of the panels are emitted, a figure with an annotation
\* left to draw has clip=false, the option the annotation pass adds to every panel, in
\* the emitted options of every panel.
C26_ClipEmitted ==
    (PanelPieces(code) # {} /\ annotations # << >>) =>
        \A k \in PanelPieces(code) :
            /\ "clip" \in DOMAIN code[k].options
            /\ code[k].options["clip"] = VStr("false")

\* the panels that title inference gave a title
TitledPanels ==
    IF found.attempt = "full" THEN 1..fig.n_trace_groups
    ELSE IF found.attempt = "row" THEN 1..fig.n_x_domains
    ELSE {}

\* C27: the options emitted for a panel that title inference gave a title carry that
\* title, whether or not the figure has a title of its own.
C27_InferredTitleEmitted ==
    \A k \in PanelPieces(code) :
        code[k].panel \in TitledPanels =>
            LET rc == title_cell(code[k].panel - 1, fig.n_x_domains, fig.n_y_domains)
            IN  /\ "title" \in DOMAIN code[k].options
                /\ code[k].options["title"] =
                        title_value(found.grid[rc[1]][rc[2]], LayoutOf(fig))

\* the environments left open by the first i pieces of the markup, innermost last;
\* <<"unmatched">> once an \end meets an empty stack or another name
RECURSIVE OpenAfter(_, _)
OpenAfter(markup, i) ==
    IF i = 0 THEN << >>
    ELSE LET open == OpenAfter(markup, i - 1)
         IN  IF open = <<"unmatched">> THEN open
             ELSE IF markup[i].kind = "begin" THEN Append(open, markup[i].name)
             ELSE IF markup[i].kind = "end"
             THEN (IF open # << >> /\ open[Len(open)] = markup[i].name
                   THEN SubSeq(open, 1, Len(open) - 1)
                   ELSE <<"unmatched">>)
             ELSE open

\* the stack holds the environments the markup has left open, between panels
\* tikzpicture alone or with groupplot
StackFollowsMarkup ==
    /\ stack_env = OpenAfter(code, Len(code))
    /\ pc \in {"titles", "panels"} =>
            stack_env = IF groupplots THEN <<"tikzpicture", "groupplot">>
                        ELSE <<"tikzpicture">>

\* C28: the environments of the markup are well nested, every one that is opened
\* being closed in last-opened-first-closed order by the end of the render, when the
\* stack is empty.
C28_EnvironmentNesting ==
    /\ StackFollowsMarkup
    /\ RenderOver => stack_env = << >>

(***************************************************************************)
(* Claims about the bar traces.                                            *)
(***************************************************************************)
\* the labels of the traces drawn so far, as they are written, in the order seen
RECURSIVE SeenLabels(_)
SeenLabels(n) ==
    IF n = 0 THEN << >>
    ELSE SeenLabels(n - 1)
            \o [i \in DOMAIN call.traces[n].x |-> VStr(tex_text(call.traces[n].x[i]))]

\* a list without its repetitions, in first-seen order
RECURSIVE FirstSeen(_)
FirstSeen(list) ==
    IF list = << >> THEN << >>
    ELSE LET front == FirstSeen(SubSeq(list, 1, Len(list) - 1))
             x == list[Len(list)]
         IN  IF \E i \in DOMAIN front : front[i] = x THEN front ELSE Append(front, x)

\* the traces drawn so far had as many x as y values and draw_bar returned for each
BarsDrawn ==
    /\ call.fn = "draw_bar"
    /\ call.drawn >= 1
    /\ ~call.raised
    /\ \A n \in 1..call.drawn : call.traces[n].y_len = Len(call.traces[n].x)

\* C29: after the bar traces drawn so far on the panel, its option 'symbolic x
\* coords' is the list of the labels seen, each exactly once, in first-seen order.
C29_SymbolicCoordsOnce ==
    BarsDrawn =>
        get_option(options[axes[BarPanel].options], "symbolic x coords")
            = VList(FirstSeen(SeenLabels(call.drawn)))

\* the text nodes of a heatmap with a text template are due: draw_heatmap has come
\* to line 222 and ended there or returned
TextDue ==
    /\ HeatmapCalled
    /\ call.texttemplate
    /\ ZRows >= 1
    /\ ZCols >= 1
    /\ pc = "done" \/ (pc = "raised" /\ last.op = "text")

\* C30: with a text template draw_heatmap reads no index outside the R x C matrix,
\* square or not, and emits exactly one text node per cell: the node of row j and
\* column i is placed at (i + 0.5, j + 0.5) and shows matrix[j][i].
C30_TextNodes ==
    TextDue =>
        /\ pc = "done"
        /\ Len(call.annotations_strs) = ZRows * ZCols
        /\ \A j \in 0..(ZRows - 1), i \in 0..(ZCols - 1) :
            \E n \in DOMAIN call.annotations_strs :
                /\ call.annotations_strs[n].i = i
                /\ call.annotations_strs[n].j = j
                /\ call.annotations_strs[n].value = call.z.rows[j + 1][i + 1]

====
